---- MODULE Spec2Model ----
(***************************************************************************)
(* Task lifecycle of the video-meta-api backend (src/app.py): the tasks    *)
(* table, the HTTP handlers that upload a video to the hosting provider,   *)
(* submit renders to the render provider and reconcile a task with the     *)
(* provider's job status, and the Task Store helpers of src/db_service.py. *)
(***************************************************************************)
EXTENDS Integers, Sequences, FiniteSets, TLC

\* ------------------------------------------------------------------ bounds
MaxClock == 2      \* the time of the last upload that reaches the hosting provider
MaxRenders == 2    \* render jobs the render provider accepts
MaxRowId == 3      \* the highest primary key the Task Store's add_task gives out
MaxIds == 2        \* length of the task_ids list of a process_videos request

\* ------------------------------------------------------- python-ish helpers
None == "None"     \* Python None / SQL NULL of a string column

Truthy(s) == s # None /\ s # ""

\* dict.get(key, default)
Get(d, key, default) == IF key \in DOMAIN d THEN d[key] ELSE default

EmptyDict == <<>>

\* str.startswith
StartsWith(s, prefix) ==
    Len(s) >= Len(prefix) /\ SubSeq(s, 1, Len(prefix)) = prefix

AlnumChars ==
    {"a","b","c","d","e","f","g","h","i","j","k","l","m","n","o","p","q","r",
     "s","t","u","v","w","x","y","z","0","1","2","3","4","5","6","7","8","9"}

RECURSIVE FilterUsernameChars(_)
FilterUsernameChars(s) ==
    IF Len(s) = 0 THEN ""
    ELSE LET c == SubSeq(s, 1, 1)
             rest == FilterUsernameChars(SubSeq(s, 2, Len(s)))
         IN IF c \in AlnumChars \/ c \in {"_", "-"} THEN c \o rest ELSE rest

\* "".join(c for c in (instagram_username or '').strip() if c.isalnum() or c in ('_','-')).strip()
\* with the 'anonymous' fallback of upload_video
cleaned_username(instagram_username) ==
    LET cleaned == FilterUsernameChars(IF Truthy(instagram_username) THEN instagram_username ELSE "")
    IN IF cleaned = "" THEN "anonymous" ELSE cleaned

RECURSIVE LastDot(_, _)
LastDot(s, i) ==
    IF i = 0 THEN 0
    ELSE IF SubSeq(s, i, i) = "." THEN i ELSE LastDot(s, i - 1)

\* os.path.splitext(filename)[0]
splitext_base(filename) ==
    LET d == LastDot(filename, Len(filename))
    IN IF d > 1 THEN SubSeq(filename, 1, d - 1) ELSE filename

\* datetime.isoformat()
isoformat(ts) == "T" \o ToString(ts)

\* ------------------------------------------------------------------- state
VARIABLES
    tasks,     \* the tasks table: sequence of rows in insertion order
    jobs,      \* render provider: the number of render jobs it has accepted
    clock,     \* datetime.now(), as the number of timestamps handed out
    resp,      \* the HTTP request just served: the request (req, with the provider's answer to
               \* it: the response dict, or [raised |-> the exception]), its response and the
               \* provider calls it made (calls.submit: the payloads sent to the render
               \* provider, in order); NoResponse once the client has taken the response
    gen,       \* interleaved generate-shotstack-video requests: each worker's position and locals
    unsettled, \* history: the task ids with a render submitted and no terminal status since
    before     \* history: the tasks table as the request just served found it

vars == <<tasks, jobs, clock, resp, gen, unsettled, before>>

\* class Task
NewTask(id, task_id, instagram_username, email, linkedin_profile, original_filename, status, timestamp, cloudinary_url, video_metadata, message, shotstackRenderId, shotstackUrl, posterUrl) ==
    [id |-> id, task_id |-> task_id, instagram_username |-> instagram_username,
     email |-> email, linkedin_profile |-> linkedin_profile,
     original_filename |-> original_filename, status |-> status,
     cloudinary_url |-> cloudinary_url, video_metadata |-> video_metadata,
     message |-> message, timestamp |-> timestamp,
     shotstackRenderId |-> shotstackRenderId, shotstackUrl |-> shotstackUrl,
     posterUrl |-> posterUrl]

\* Task.to_dict
to_dict(t) ==
    [id |-> t.id, taskId |-> t.task_id, instagram_username |-> t.instagram_username,
     email |-> t.email, linkedin_profile |-> t.linkedin_profile,
     originalFilename |-> t.original_filename, status |-> t.status,
     cloudinary_url |-> t.cloudinary_url, metadata |-> t.video_metadata,
     message |-> t.message, timestamp |-> isoformat(t.timestamp),
     shotstackRenderId |-> t.shotstackRenderId, shotstackUrl |-> t.shotstackUrl,
     posterUrl |-> t.posterUrl]

\* session.query(Task).filter_by(task_id=...).first(): the row's position, 0 for None
FindTask(table, task_id) ==
    LET hits == {i \in 1..Len(table) : table[i].task_id = task_id}
    IN IF hits = {} THEN 0 ELSE CHOOSE i \in hits : \A j \in hits : i <= j

TaskIds == {tasks[i].task_id : i \in 1..Len(tasks)}

NoCalls == [upload |-> 0, submit |-> <<>>, poll |-> 0]

Idle == [pc |-> "idle"]

Workers == {1, 2}

NoResponse == [op |-> "none", code |-> 0, calls |-> NoCalls]

Init ==
    /\ tasks = <<>>
    /\ jobs = 0
    /\ clock = 0
    /\ resp = NoResponse
    /\ gen = [w \in Workers |-> Idle]
    /\ unsettled = {}
    /\ before = <<>>

\* ------------------------------------------------------------ request inputs
\* form fields instagram_username, email, linkedin_profile of a request (None: absent)
Owners ==
    { [instagram_username |-> "alice", email |-> "a@x.io", linkedin_profile |-> None],
      [instagram_username |-> None, email |-> "b@x.io", linkedin_profile |-> "in/bob"],
      [instagram_username |-> "concatenated_video_fan", email |-> None, linkedin_profile |-> None],
      [instagram_username |-> None, email |-> None, linkedin_profile |-> None] }

\* request.files['video'].filename of an upload that carries a file
Filenames == {"clip.mp4"}

\* unique_hash[:8]: md5 over username, filename and the request's time
Hashes == {"0a1b2c3d"}

\* ------------------------------------------------------- hosting provider
\* the upload_result dicts cloudinary.uploader.upload may answer with for a stored video
HostingAnswers == {"full", "zero_duration", "no_bytes", "empty"}

secure_url(folder, public_id) == "https://cdn/" \o folder \o "/" \o public_id \o ".mp4"

upload_result(answer, url) ==
    CASE answer = "full" ->
           [secure_url |-> url, duration |-> 10, width |-> 1280, height |-> 720, bytes |-> 5]
      [] answer = "zero_duration" ->
           [secure_url |-> url, duration |-> 0, width |-> 1280, height |-> 720, bytes |-> 5]
      [] answer = "no_bytes" ->
           [secure_url |-> url, duration |-> 4, width |-> 720, height |-> 1280]
      [] OTHER -> EmptyDict

\* seeded fault: a metadata gate that does not look at the size
metadata_incomplete_without_bytes(result) ==
    \/ Get(result, "duration", 0) <= 0
    \/ Get(result, "width", 0) <= 0
    \/ Get(result, "height", 0) <= 0

\* the metadata gate of upload_video: True when the upload must not be accepted as completed
metadata_incomplete(result) ==
    \/ Get(result, "duration", 0) <= 0
    \/ Get(result, "width", 0) <= 0
    \/ Get(result, "height", 0) <= 0
    \/ Get(result, "bytes", 0) <= 0

MsgIncomplete == "Video uploaded but could not retrieve complete and valid metadata from Cloudinary."
MsgUploaded == "Video successfully uploaded to Cloudinary and full metadata obtained."
MsgUploadFailed == "Cloudinary upload failed: secure_url missing in response."

\* seeded fault: an upload that stores every answer as a new completed task without metadata
upload_commit_without_metadata(table, task_id, owner, filename, result, now) ==
    Append(table, NewTask(Len(table) + 1, task_id, owner.instagram_username, owner.email,
                          owner.linkedin_profile, filename, "completed", now,
                          Get(result, "secure_url", None), EmptyDict, MsgUploaded,
                          None, None, None))

\* upload_video, from the secure_url test on: the table after the commit
upload_commit(table, task_id, owner, filename, result, now) ==
    LET existing == FindTask(table, task_id)
        url == Get(result, "secure_url", None)
        row(status, cloudinary_url, video_metadata, message) ==
            NewTask(Len(table) + 1, task_id, owner.instagram_username, owner.email,
                    owner.linkedin_profile, filename, status, now, cloudinary_url,
                    video_metadata, message, None, None, None)
    IN IF Truthy(url)
       THEN IF metadata_incomplete(result)
            THEN IF existing # 0
                 THEN [table EXCEPT ![existing] =
                          [@ EXCEPT !.status = "cloudinary_metadata_incomplete",
                                    !.message = MsgIncomplete,
                                    !.cloudinary_url = url,
                                    !.video_metadata = result]]
                 ELSE Append(table, row("cloudinary_metadata_incomplete", url, result, MsgIncomplete))
            ELSE IF existing # 0
                 THEN [table EXCEPT ![existing] =
                          [@ EXCEPT !.instagram_username = owner.instagram_username,
                                    !.email = owner.email,
                                    !.linkedin_profile = owner.linkedin_profile,
                                    !.original_filename = filename,
                                    !.status = "completed",
                                    !.timestamp = now,
                                    !.cloudinary_url = url,
                                    !.video_metadata = result,
                                    !.message = MsgUploaded]]
                 ELSE Append(table, row("completed", url, result, MsgUploaded))
       ELSE IF existing # 0
            THEN [table EXCEPT ![existing] =
                     [@ EXCEPT !.status = "cloudinary_upload_failed",
                               !.message = MsgUploadFailed]]
            ELSE Append(table, row("cloudinary_upload_failed", None, EmptyDict, MsgUploadFailed))

\* upload_video: the JSON body and status code returned after the commit
upload_response(task_id, filename, result) ==
    LET url == Get(result, "secure_url", None)
    IN IF Truthy(url)
       THEN IF metadata_incomplete(result)
            THEN [code |-> 500,
                  body |-> [error |-> "Video uploaded but could not retrieve complete and valid metadata from Cloudinary. Please try again or check video file.",
                            taskId |-> task_id, cloudinary_url |-> url, metadata |-> result]]
            ELSE [code |-> 200,
                  body |-> [message |-> "Video uploaded and task created.", taskId |-> task_id,
                            cloudinary_url |-> url, metadata |-> result,
                            originalFilename |-> filename, status |-> "completed"]]
       ELSE [code |-> 500, body |-> [error |-> "Cloudinary upload failed"]]

\* seeded fault: except branches that also forget the render of the row they mark failed
upload_raised_forgets_render(table, task_id, exc) ==
    LET existing == FindTask(table, task_id)
    IN IF existing # 0
       THEN [table EXCEPT ![existing] =
                [@ EXCEPT !.status = "failed", !.shotstackRenderId = None,
                          !.message = "Unexpected upload error: " \o exc]]
       ELSE table

\* upload_video, the except branches: an existing row of that task_id is marked failed
upload_raised(table, task_id, exc) ==
    LET existing == FindTask(table, task_id)
    IN IF existing # 0
       THEN [table EXCEPT ![existing] =
                [@ EXCEPT !.status = "failed",
                          !.message = IF exc = "RequestException"
                                      THEN "Upload network error: " \o exc
                                      ELSE "Unexpected upload error: " \o exc]]
       ELSE table

\* what cloudinary.uploader.upload raises (cloudinary.exceptions.Error, an Exception)
UploadExceptions == {"Exception"}

Exceptions == {"RequestException", "Exception"}

\* seeded fault: a request without a file that is still sent to the hosting provider
UploadInvalid_calls_host(has_file) ==
    /\ resp' = [op |-> "upload_video", req |-> [has_file |-> has_file, filename |-> ""],
                code |-> 400,
                body |-> [error |-> "No video file provided"],
                calls |-> [NoCalls EXCEPT !.upload = 1]]
    /\ UNCHANGED <<tasks, jobs, clock, gen>>

\* POST /upload_video without a file part, or with an empty file name
UploadInvalid(has_file) ==
    /\ resp' = [op |-> "upload_video", req |-> [has_file |-> has_file, filename |-> ""],
                code |-> 400,
                body |-> [error |-> IF has_file THEN "No selected video file"
                                    ELSE "No video file provided"],
                calls |-> NoCalls]
    /\ UNCHANGED <<tasks, jobs, clock, gen>>

\* POST /upload_video with a file: the hosting call answers or raises
UploadVideo(filename, owner, hash, answer) ==
    LET cleaned == cleaned_username(owner.instagram_username)
        public_id == splitext_base(filename) \o "_" \o hash
        task_id == cleaned \o "/" \o public_id
        result == upload_result(answer, secure_url("hife_video_analysis/" \o cleaned, public_id))
        req == [task_id |-> task_id, owner |-> owner, filename |-> filename,
                answer |-> IF answer \in UploadExceptions THEN [raised |-> answer] ELSE result]
    IN /\ UNCHANGED <<jobs, gen>>
       /\ clock < MaxClock
       /\ clock' = clock + 1
       /\ IF answer \in UploadExceptions
          THEN /\ tasks' = upload_raised(tasks, task_id, answer)
               /\ resp' = [op |-> "upload_video", req |-> req, code |-> 500,
                           body |-> [error |-> "An unexpected error occurred", details |-> answer],
                           calls |-> [NoCalls EXCEPT !.upload = 1]]
          ELSE /\ tasks' = upload_commit(tasks, task_id, owner, filename, result, clock + 1)
               /\ resp' = [op |-> "upload_video", req |-> req, calls |-> [NoCalls EXCEPT !.upload = 1]]
                          @@ upload_response(task_id, filename, result)

Upload ==
    \/ \E has_file \in BOOLEAN : UploadInvalid(has_file)
    \/ \E filename \in Filenames, owner \in Owners, hash \in Hashes,
          answer \in HostingAnswers \cup UploadExceptions :
            UploadVideo(filename, owner, hash, answer)

\* ---------------------------------------------------------- render provider
\* create_shotstack_payload: the clips of the video track, the text clips and the output
\* settings (fonts, colours, offsets, the texts shown and the random transition names are
\* left out)
RECURSIVE SumDurations(_)
SumDurations(metadata_list) ==
    IF metadata_list = <<>> THEN 0
    ELSE (IF Head(metadata_list) # EmptyDict THEN Get(Head(metadata_list), "duration", 0) ELSE 0)
         + SumDurations(Tail(metadata_list))

RECURSIVE ConcatClips(_, _, _, _)
ConcatClips(urls, metadata_list, i, current_start_time) ==
    IF i > Len(urls) THEN <<>>
    ELSE LET clip_metadata == IF i <= Len(metadata_list) THEN metadata_list[i] ELSE EmptyDict
             clip_duration == Get(clip_metadata, "duration", 5)
         IN <<[src |-> urls[i], start |-> current_start_time, length |-> clip_duration]>>
            \o ConcatClips(urls, metadata_list, i + 1, current_start_time + clip_duration)

create_shotstack_payload(url_or_urls, video_metadata_list, connect_videos) ==
    LET first_video_metadata ==
            IF video_metadata_list # <<>> THEN video_metadata_list[1] ELSE EmptyDict
        width == Get(first_video_metadata, "width", 1920)
        height == Get(first_video_metadata, "height", 1080)
        single_video_duration ==
            IF video_metadata_list # <<>> THEN Get(video_metadata_list[1], "duration", 5) ELSE 5
        total_duration ==
            IF connect_videos THEN SumDurations(video_metadata_list) ELSE single_video_duration
        video_clips ==
            IF connect_videos
            THEN ConcatClips(url_or_urls, video_metadata_list, 1, 0)
            ELSE <<[src |-> url_or_urls, start |-> 0, length |-> single_video_duration]>>
        text_clip == [start |-> 0, length |-> total_duration]
    IN [clips |-> video_clips,
        texts |-> IF connect_videos THEN <<text_clip, text_clip>> ELSE <<text_clip>>,
        resolution |-> IF width >= 1920 \/ height >= 1080 THEN "hd" ELSE "sd",
        aspectRatio |-> IF width > height THEN "9:16"
                        ELSE IF height > width THEN "9:16" ELSE "1:1"]

\* the video_metadata dicts create_shotstack_payload is given: the hosting provider's answers
\* as upload_video stores them, with the duration present, zero or missing
PayloadMetadata ==
    {[duration |-> 10, width |-> 1280, height |-> 720, bytes |-> 5],
     [duration |-> 4, width |-> 720, height |-> 1280],
     [duration |-> 7, width |-> 1920, height |-> 1080, bytes |-> 9],
     [duration |-> 0, width |-> 1080, height |-> 1080, bytes |-> 5],
     [duration |-> 3, width |-> 640, height |-> 640, bytes |-> 2],
     [width |-> 1280, height |-> 720, bytes |-> 5]}

PayloadUrls == {"https://cdn/a.mp4", "https://cdn/b.mp4", "https://cdn/c.mp4"}

\* the most sources one concatenation is given
MaxClips == 3

\* create_shotstack_payload(..., connect_videos=True) on a list of URLs and the list of their
\* metadata
BuildConcat ==
    \E n \in 2..MaxClips :
        \E urls \in [1..n -> PayloadUrls], video_metadata_list \in [1..n -> PayloadMetadata] :
            /\ UNCHANGED <<tasks, jobs, clock, gen>>
            /\ resp' = [op |-> "create_shotstack_payload",
                        req |-> [urls |-> urls, video_metadata_list |-> video_metadata_list,
                                 connect_videos |-> TRUE],
                        code |-> 0,
                        body |-> create_shotstack_payload(urls, video_metadata_list, TRUE),
                        calls |-> NoCalls]

\* create_shotstack_payload(..., connect_videos=False) on one URL and its metadata, which is
\* wrapped into a list of one
BuildSingle ==
    \E url \in PayloadUrls, video_metadata \in PayloadMetadata :
        /\ UNCHANGED <<tasks, jobs, clock, gen>>
        /\ resp' = [op |-> "create_shotstack_payload",
                    req |-> [urls |-> <<url>>, video_metadata_list |-> <<video_metadata>>,
                             connect_videos |-> FALSE],
                    code |-> 0,
                    body |-> create_shotstack_payload(url, <<video_metadata>>, FALSE),
                    calls |-> NoCalls]

\* how a render submission ends where the caller catches every exception alike (the loop of
\* process_videos): a job id, or initiate_shotstack_render raises
SubmitAnswers == {"ok", "Exception"}

\* the id the provider gives its next job
next_render_id(provider_jobs) == "r" \o ToString(provider_jobs + 1)

\* what the status endpoint may answer for a job: get_shotstack_render_status returns
\* status, url, poster and error_message of the provider's response, None where absent
render_url(render_id) == "https://shotstack/" \o render_id \o ".mp4"

poster_url(render_id) == "https://shotstack/" \o render_id \o ".jpg"

StatusAnswers(render_id) ==
    { [status |-> "done", url |-> render_url(render_id), poster |-> poster_url(render_id),
       error_message |-> None],
      [status |-> "done", url |-> render_url(render_id), poster |-> None, error_message |-> None],
      [status |-> "done", url |-> None, poster |-> None, error_message |-> None],
      [status |-> "failed", url |-> None, poster |-> None, error_message |-> "render crashed"],
      [status |-> "error", url |-> None, poster |-> None, error_message |-> None],
      [status |-> "failed_due_to_timeout", url |-> None, poster |-> None, error_message |-> None],
      [status |-> "rendering", url |-> None, poster |-> poster_url(render_id),
       error_message |-> None],
      [status |-> None, url |-> None, poster |-> None, error_message |-> None] }

\* ------------------------------------------------------ GET /task-status/<id>
\* seeded fault: the statuses of a finished concatenation do not end polling
TerminalStatuses_without_concatenated == {"completed", "failed"}

TerminalStatuses == {"completed", "failed", "concatenated_completed", "concatenated_failed"}

\* seeded fault: a timed-out render is not taken for a failure
FailureStatuses_without_timeout == {"failed", "error"}

FailureStatuses == {"failed", "error", "failed_due_to_timeout"}

\* seeded fault: a status query that asks the provider whenever the task has a render id
render_pending_any_status(task_info) == Truthy(task_info.shotstackRenderId)

\* seeded fault: a status query that asks the provider for every task not yet finished
render_pending_without_id(task_info) == task_info.status \notin TerminalStatuses

\* the test that sends a status query to the render provider
render_pending(task_info) ==
    Truthy(task_info.shotstackRenderId) /\ task_info.status \notin TerminalStatuses

\* seeded fault: a reconciliation that stores the provider's word for a finished render
reconcile_provider_status(task_info, task_id, status_info) ==
    IF status_info.status = "done" /\ Truthy(status_info.url)
    THEN [task_info EXCEPT !.status = status_info.status, !.shotstackUrl = status_info.url,
                           !.posterUrl = status_info.poster]
    ELSE IF status_info.status \in {"failed", "error", "failed_due_to_timeout"}
    THEN [task_info EXCEPT !.status = "failed", !.shotstackUrl = None, !.posterUrl = None]
    ELSE task_info

\* the Task object after the branch on the provider's answer (in the session, before any commit)
reconcile(task_info, task_id, status_info) ==
    LET concatenated == StartsWith(task_id, "concatenated_video_")
        error_text == IF Truthy(status_info.error_message) THEN status_info.error_message
                      ELSE "Unknown Shotstack error"
    IN IF status_info.status = "done" /\ Truthy(status_info.url)
       THEN [task_info EXCEPT
                !.status = IF concatenated THEN "concatenated_completed" ELSE "completed",
                !.message = IF concatenated THEN "Concatenated video rendered successfully."
                            ELSE "Shotstack video rendered successfully.",
                !.shotstackUrl = status_info.url,
                !.posterUrl = status_info.poster]
       ELSE IF status_info.status \in FailureStatuses
       THEN [task_info EXCEPT
                !.status = IF concatenated THEN "concatenated_failed" ELSE "failed",
                !.message = (IF concatenated THEN "Concatenated video rendering failed: "
                             ELSE "Shotstack rendering failed: ") \o error_text,
                !.shotstackUrl = None,
                !.posterUrl = None]
       ELSE [task_info EXCEPT
                !.message = "Shotstack render in progress: " \o status_info.status]

\* seeded fault: a reconciliation that commits failures only
reconcile_commits_failures_only(status_info) == status_info.status \in FailureStatuses

\* whether that branch ends in session.commit()
reconcile_commits(status_info) ==
    \/ status_info.status = "done" /\ Truthy(status_info.url)
    \/ status_info.status \in FailureStatuses

\* seeded fault: a failed status check that reports the task as failed
status_check_raised_fails(task_info, exc) ==
    [task_info EXCEPT !.status = "failed", !.message = "Error checking Shotstack status: " \o exc]

\* the Task object after an except branch of the provider call (never committed)
status_check_raised(task_info, exc) ==
    [task_info EXCEPT !.message = IF exc = "RequestException"
                                  THEN "Error checking Shotstack status: " \o exc
                                  ELSE "Unexpected error during Shotstack status check: " \o exc]

\* seeded fault: a response that shows the stored poster only
status_response_stored_poster(task_info, poster) == to_dict(task_info)

\* response_data: to_dict of the session's object, the poster of the provider's answer first
status_response(task_info, poster) ==
    IF Truthy(poster) THEN [to_dict(task_info) EXCEPT !.posterUrl = poster]
    ELSE to_dict(task_info)

GetTaskStatus(task_id) ==
    LET i == FindTask(tasks, task_id)
        req == [task_id |-> task_id]
    IN /\ UNCHANGED <<jobs, clock, gen>>
       /\ IF i = 0
          THEN /\ resp' = [op |-> "task-status", req |-> req, code |-> 404,
                           body |-> [message |-> "Task not found."], calls |-> NoCalls]
               /\ UNCHANGED tasks
          ELSE IF render_pending(tasks[i])
          THEN \/ \E status_info \in StatusAnswers(tasks[i].shotstackRenderId) :
                    LET after == reconcile(tasks[i], task_id, status_info)
                    IN /\ tasks' = IF reconcile_commits(status_info)
                                   THEN [tasks EXCEPT ![i] = after] ELSE tasks
                       /\ resp' = [op |-> "task-status",
                                   req |-> [task_id |-> task_id, answer |-> status_info],
                                   code |-> 200,
                                   body |-> status_response(after, status_info.poster),
                                   calls |-> [NoCalls EXCEPT !.poll = 1]]
               \/ \E exc \in Exceptions :
                    /\ UNCHANGED tasks
                    /\ resp' = [op |-> "task-status",
                                req |-> [task_id |-> task_id, answer |-> [raised |-> exc]],
                                code |-> 200,
                                body |-> to_dict(status_check_raised(tasks[i], exc)),
                                calls |-> [NoCalls EXCEPT !.poll = 1]]
          ELSE /\ resp' = [op |-> "task-status", req |-> req, code |-> 200,
                           body |-> to_dict(tasks[i]), calls |-> NoCalls]
               /\ UNCHANGED tasks

\* task ids a client may name: those of the table and one that no row has
UnknownTaskId == "nobody/none_00000000"

RequestTaskIds == TaskIds \cup {UnknownTaskId}

TaskStatus == \E task_id \in RequestTaskIds : GetTaskStatus(task_id)

\* ------------------------------------------- POST /generate-shotstack-video
\* seeded fault: the checks without the one for a render already in progress
generate_precheck_resubmits(table, task_id) ==
    LET i == FindTask(table, task_id)
    IN IF ~Truthy(task_id)
       THEN [code |-> 400, body |-> [error |-> "No taskId provided"]]
       ELSE IF i = 0
       THEN [code |-> 404, body |-> [error |-> "Task not found."]]
       ELSE IF ~Truthy(table[i].cloudinary_url)
       THEN [code |-> 400, body |-> [error |-> "Video not uploaded to Cloudinary yet or URL missing."]]
       ELSE [code |-> 0]

\* seeded fault: the checks with an unknown task id taken for a malformed request
generate_precheck_unknown_is_400(table, task_id) ==
    LET i == FindTask(table, task_id)
    IN IF ~Truthy(task_id) \/ i = 0
       THEN [code |-> 400, body |-> [error |-> "No taskId provided"]]
       ELSE IF ~Truthy(table[i].cloudinary_url)
       THEN [code |-> 400, body |-> [error |-> "Video not uploaded to Cloudinary yet or URL missing."]]
       ELSE IF table[i].status = "shotstack_pending" /\ Truthy(table[i].shotstackRenderId)
       THEN [code |-> 200, body |-> [message |-> "Shotstack render already initiated and in progress.",
                                     shotstackRenderId |-> table[i].shotstackRenderId]]
       ELSE [code |-> 0]

\* the checks before the render call: the early response, or code 0 to go on
generate_precheck(table, task_id) ==
    LET i == FindTask(table, task_id)
    IN IF ~Truthy(task_id)
       THEN [code |-> 400, body |-> [error |-> "No taskId provided"]]
       ELSE IF i = 0
       THEN [code |-> 404, body |-> [error |-> "Task not found."]]
       ELSE IF ~Truthy(table[i].cloudinary_url)
       THEN [code |-> 400, body |-> [error |-> "Video not uploaded to Cloudinary yet or URL missing."]]
       ELSE IF table[i].status = "shotstack_pending" /\ Truthy(table[i].shotstackRenderId)
       THEN [code |-> 200, body |-> [message |-> "Shotstack render already initiated and in progress.",
                                     shotstackRenderId |-> table[i].shotstackRenderId]]
       ELSE [code |-> 0]

\* the payload of the single-video render of a task
single_payload(task) ==
    create_shotstack_payload(task.cloudinary_url, <<task.video_metadata>>, FALSE)

\* seeded fault: a commit that keeps a render id another request has stored meanwhile
generate_commit_keeps_first(table, i, render_id) ==
    IF Truthy(table[i].shotstackRenderId) /\ table[i].status = "shotstack_pending"
    THEN table
    ELSE [table EXCEPT ![i] =
            [@ EXCEPT !.status = "shotstack_pending",
                      !.message = "Shotstack render initiated with ID: " \o render_id,
                      !.shotstackRenderId = render_id]]

\* the UPDATE that the commit after a successful submission issues for the row
generate_commit(table, i, render_id) ==
    [table EXCEPT ![i] =
        [@ EXCEPT !.status = "shotstack_pending",
                  !.message = "Shotstack render initiated with ID: " \o render_id,
                  !.shotstackRenderId = render_id]]

generate_ok(render_id) ==
    [code |-> 200, body |-> [message |-> "Shotstack render initiated successfully.",
                             shotstackRenderId |-> render_id]]

generate_failed(exc) ==
    [code |-> 500,
     body |-> [error |-> IF exc = "RequestException" THEN "Error communicating with Shotstack API"
                         ELSE "An unexpected server error occurred.",
               details |-> exc]]

GenerateShotstackVideo(task_id) ==
    LET pre == generate_precheck(tasks, task_id)
        i == FindTask(tasks, task_id)
        head == [op |-> "generate-shotstack-video", req |-> [task_id |-> task_id]]
    IN /\ UNCHANGED <<clock, gen>>
       /\ IF pre.code # 0
          THEN /\ resp' = head @@ pre @@ [calls |-> NoCalls]
               /\ UNCHANGED <<tasks, jobs>>
          ELSE \/ /\ jobs < MaxRenders
                  /\ jobs' = jobs + 1
                  /\ tasks' = generate_commit(tasks, i, next_render_id(jobs))
                  /\ resp' = head @@ generate_ok(next_render_id(jobs))
                             @@ [calls |-> [NoCalls EXCEPT !.submit = <<single_payload(tasks[i])>>],
                                 provider |-> "ok"]
               \/ \E exc \in Exceptions :
                  /\ resp' = head @@ generate_failed(exc)
                             @@ [calls |-> [NoCalls EXCEPT !.submit = <<single_payload(tasks[i])>>],
                                 provider |-> exc]
                  /\ UNCHANGED <<tasks, jobs>>

Generate == \E task_id \in RequestTaskIds \cup {None} : GenerateShotstackVideo(task_id)

\* ------------------------------------------------------ POST /process_videos
\* the rows of task_ids that exist, are completed and carry a hosting URL and metadata,
\* in the order supplied (positions in the table)
\* seeded fault: a test of the sources that does not look at the status
valid_tasks_any_status(table, task_ids) ==
    SelectSeq([k \in 1..Len(task_ids) |-> FindTask(table, task_ids[k])],
              LAMBDA i : IF i = 0 THEN FALSE
                         ELSE Truthy(table[i].cloudinary_url) /\ table[i].video_metadata # EmptyDict)

RECURSIVE valid_tasks(_, _)
valid_tasks(table, task_ids) ==
    IF task_ids = <<>> THEN <<>>
    ELSE LET i == FindTask(table, Head(task_ids))
             ok == /\ i # 0
                   /\ Truthy(table[i].cloudinary_url)
                   /\ table[i].video_metadata # EmptyDict
                   /\ table[i].status = "completed"
         IN (IF ok THEN <<i>> ELSE <<>>) \o valid_tasks(table, Tail(task_ids))

RECURSIVE FirstDot(_, _)
FirstDot(s, i) ==
    IF i > Len(s) THEN 0
    ELSE IF SubSeq(s, i, i) = "." THEN i ELSE FirstDot(s, i + 1)

\* filename.split('.')[0]
split_dot_first(filename) ==
    LET d == FirstDot(filename, 1)
    IN IF d = 0 THEN filename ELSE SubSeq(filename, 1, d - 1)

RECURSIVE JoinNames(_, _, _)
JoinNames(table, valid, k) ==
    IF k > Len(valid) \/ k > 3 THEN ""
    ELSE (IF k > 1 THEN "_" ELSE "") \o split_dot_first(table[valid[k]].original_filename)
         \o JoinNames(table, valid, k + 1)

combined_filename(table, valid, hash) ==
    "Combined_" \o JoinNames(table, valid, 1) \o "_" \o hash \o ".mp4"

\* the message initiate_shotstack_render returns with a job id (Russian in the source)
MsgQueued == "Render successfully queued."

\* seeded fault: the row of a concatenation render stored without the render's id
concatenated_task_without_render_id(table, valid, owner, filename, render_id, now) ==
    NewTask(Len(table) + 1, "concatenated_video_" \o render_id, owner.instagram_username,
            owner.email, owner.linkedin_profile, filename, "concatenated_pending", now, None,
            [combined_from_tasks |-> [k \in 1..Len(valid) |-> table[valid[k]].task_id],
             total_duration |-> SumDurations([k \in 1..Len(valid) |-> table[valid[k]].video_metadata])],
            "Concatenated video render initiated with ID: " \o render_id,
            None, None, None)

\* the row process_videos adds for a concatenation render
concatenated_task(table, valid, owner, filename, render_id, now) ==
    NewTask(Len(table) + 1, "concatenated_video_" \o render_id, owner.instagram_username,
            owner.email, owner.linkedin_profile, filename, "concatenated_pending", now, None,
            [combined_from_tasks |-> [k \in 1..Len(valid) |-> table[valid[k]].task_id],
             total_duration |-> SumDurations([k \in 1..Len(valid) |-> table[valid[k]].video_metadata])],
            "Concatenated video render initiated with ID: " \o render_id,
            render_id, None, None)

\* seeded fault: a concatenation that also marks its sources as rendering
concat_commit_marks_sources(table, valid, owner, filename, render_id, now) ==
    Append([i \in 1..Len(table) |->
               IF \E k \in 1..Len(valid) : valid[k] = i
               THEN [table[i] EXCEPT !.status = "shotstack_pending", !.shotstackRenderId = render_id]
               ELSE table[i]],
           concatenated_task(table, valid, owner, filename, render_id, now))

\* session.add(new_concatenated_task); session.commit(): the new row is the only change
concat_commit(table, valid, owner, filename, render_id, now) ==
    Append(table, concatenated_task(table, valid, owner, filename, render_id, now))

\* seeded fault: a concatenation payload that takes the sources last to first
concat_payload_reversed(table, valid) ==
    create_shotstack_payload(
        [k \in 1..Len(valid) |-> table[valid[Len(valid) + 1 - k]].cloudinary_url],
        [k \in 1..Len(valid) |-> table[valid[Len(valid) + 1 - k]].video_metadata],
        TRUE)

concat_payload(table, valid) ==
    create_shotstack_payload([k \in 1..Len(valid) |-> table[valid[k]].cloudinary_url],
                             [k \in 1..Len(valid) |-> table[valid[k]].video_metadata],
                             TRUE)

\* seeded fault: a loop that ends at the first submission that fails
RECURSIVE fan_out_stops_at_failure(_, _, _, _, _)
fan_out_stops_at_failure(table, provider_jobs, valid, k, answers) ==
    IF k > Len(valid)
    THEN [table |-> table, jobs |-> provider_jobs, info |-> <<>>, submits |-> <<>>]
    ELSE LET i == valid[k]
             task == table[i]
             render_id_single == next_render_id(provider_jobs)
         IN IF task.status # "completed"
            THEN fan_out_stops_at_failure(table, provider_jobs, valid, k + 1, answers)
            ELSE IF answers[k] = "ok"
            THEN LET rest == fan_out_stops_at_failure(
                        [table EXCEPT ![i] =
                            [@ EXCEPT !.shotstackRenderId = render_id_single,
                                      !.status = "shotstack_pending",
                                      !.message = "Shotstack render initiated with ID: "
                                                  \o render_id_single]],
                        provider_jobs + 1,
                        valid, k + 1, answers)
                 IN [rest EXCEPT !.info =
                        <<[taskId |-> task.task_id, shotstackRenderId |-> render_id_single,
                           message |-> MsgQueued]>> \o @,
                                 !.submits = <<single_payload(task)>> \o @]
            ELSE [table |-> table, jobs |-> provider_jobs,
                  info |-> <<[taskId |-> task.task_id, error |-> answers[k]]>>,
                  submits |-> <<single_payload(task)>>]

\* the loop of the individual branch over valid_tasks[k..]: the session's rows, the
\* provider's jobs and the initiated_tasks entries when the loop ends
RECURSIVE fan_out(_, _, _, _, _)
fan_out(table, provider_jobs, valid, k, answers) ==
    IF k > Len(valid)
    THEN [table |-> table, jobs |-> provider_jobs, info |-> <<>>, submits |-> <<>>]
    ELSE LET i == valid[k]
             task == table[i]
             render_id_single == next_render_id(provider_jobs)
         IN IF task.status # "completed"
            THEN fan_out(table, provider_jobs, valid, k + 1, answers)
            ELSE IF Truthy(task.shotstackRenderId) /\ task.status = "shotstack_pending"
            THEN LET rest == fan_out(table, provider_jobs, valid, k + 1, answers)
                 IN [rest EXCEPT !.info =
                        <<[taskId |-> task.task_id, shotstackRenderId |-> task.shotstackRenderId,
                           message |-> "Already processing."]>> \o @]
            ELSE IF answers[k] = "ok"
            THEN LET rest == fan_out(
                        [table EXCEPT ![i] =
                            [@ EXCEPT !.shotstackRenderId = render_id_single,
                                      !.status = "shotstack_pending",
                                      !.message = "Shotstack render initiated with ID: "
                                                  \o render_id_single]],
                        provider_jobs + 1,
                        valid, k + 1, answers)
                 IN [rest EXCEPT !.info =
                        <<[taskId |-> task.task_id, shotstackRenderId |-> render_id_single,
                           message |-> MsgQueued]>> \o @,
                                 !.submits = <<single_payload(task)>> \o @]
            ELSE LET rest == fan_out(table, provider_jobs, valid, k + 1, answers)
                 IN [rest EXCEPT !.info = <<[taskId |-> task.task_id, error |-> answers[k]]>> \o @,
                                 !.submits = <<single_payload(task)>> \o @]

ProcessVideos(task_ids, connect_videos, owner, hash) ==
    LET valid == valid_tasks(tasks, task_ids)
        op == [op |-> "process_videos"]
        head == op @@ [req |-> [task_ids |-> task_ids, connect_videos |-> connect_videos]]
        none == op @@ [req |-> [task_ids |-> <<>>, connect_videos |-> connect_videos]]
        one_call == [NoCalls EXCEPT !.submit = <<concat_payload(tasks, valid)>>]
    IN /\ UNCHANGED gen
       /\ IF task_ids = <<>>
          THEN /\ resp' = none @@ [code |-> 400, body |-> [error |-> "No task IDs provided"],
                                   calls |-> NoCalls]
               /\ UNCHANGED <<tasks, jobs, clock>>
          ELSE IF valid = <<>>
          THEN /\ resp' = head @@ [code |-> 404,
                                   body |-> [error |-> "No valid tasks found for processing (missing or invalid data). Please ensure videos are uploaded and have full metadata."],
                                   calls |-> NoCalls]
               /\ UNCHANGED <<tasks, jobs, clock>>
          ELSE IF connect_videos /\ Len(valid) >= 2
          THEN \/ LET render_id == next_render_id(jobs)
                  IN /\ jobs < MaxRenders
                     /\ jobs' = jobs + 1
                     /\ clock' = clock + 1
                     /\ tasks' = concat_commit(tasks, valid, owner,
                                              combined_filename(tasks, valid, hash),
                                              render_id, clock + 1)
                     /\ resp' = head @@ [code |-> 200,
                                         body |-> [message |-> MsgQueued,
                                                   shotstackRenderId |-> render_id,
                                                   concatenated_task_id |->
                                                       "concatenated_video_" \o render_id],
                                         calls |-> one_call, provider |-> "ok"]
               \/ \E exc \in Exceptions :
                     /\ resp' = head @@ generate_failed(exc)
                                @@ [calls |-> one_call, provider |-> exc]
                     /\ UNCHANGED <<tasks, jobs, clock>>
          ELSE \E answers \in [1..Len(valid) -> SubmitAnswers] :
                  LET out == fan_out(tasks, jobs, valid, 1, answers)
                  IN /\ out.jobs <= MaxRenders
                     /\ tasks' = out.table
                     /\ jobs' = out.jobs
                     /\ resp' = head @@ [code |-> 200,
                                         body |-> [message |-> "Individual video processing initiated.",
                                                   initiated_tasks |-> out.info],
                                         calls |-> [NoCalls EXCEPT !.submit = out.submits]]
                     /\ UNCHANGED clock

\* the task_ids lists of up to MaxIds ids
TaskIdLists == UNION {[1..n -> RequestTaskIds] : n \in 0..MaxIds}

\* the owner fields of a process_videos request
ProcessOwners == {[instagram_username |-> "alice", email |-> "a@x.io", linkedin_profile |-> None]}

Process ==
    \E task_ids \in TaskIdLists, connect_videos \in BOOLEAN, owner \in ProcessOwners,
       hash \in Hashes :
        ProcessVideos(task_ids, connect_videos, owner, hash)

\* ------------------------------------------------------------ GET /user-videos
\* .order_by(Task.timestamp.desc()): the rows at the positions of a set, newest first
\* (no two rows carry the same timestamp: every timestamp is a fresh reading of the clock)
RECURSIVE order_by_timestamp_desc(_, _)
order_by_timestamp_desc(table, positions) ==
    IF positions = {} THEN <<>>
    ELSE LET newest == CHOOSE i \in positions :
                           \A j \in positions : table[i].timestamp >= table[j].timestamp
         IN <<table[newest]>> \o order_by_timestamp_desc(table, positions \ {newest})

\* seeded fault: a status filter that lets failed tasks through
ListedStatuses_with_failed ==
    {"completed", "processing", "uploaded", "shotstack_pending", "concatenated_pending",
     "concatenated_completed", "failed"}

\* the statuses the endpoint lists
ListedStatuses ==
    {"completed", "processing", "uploaded", "shotstack_pending", "concatenated_pending",
     "concatenated_completed"}

\* the endpoint's query: one .filter per supplied identifier, chained, then the status filter
user_videos_query(table, instagram_username, email, linkedin_profile) ==
    {i \in 1..Len(table) :
        /\ Truthy(instagram_username) => table[i].instagram_username = instagram_username
        /\ Truthy(email) => table[i].email = email
        /\ Truthy(linkedin_profile) => table[i].linkedin_profile = linkedin_profile
        /\ table[i].status \in ListedStatuses}

UserVideos(instagram_username, email, linkedin_profile) ==
    LET head == [op |-> "user-videos",
                 req |-> [instagram_username |-> instagram_username, email |-> email,
                          linkedin_profile |-> linkedin_profile],
                 calls |-> NoCalls]
        found == order_by_timestamp_desc(
                     tasks, user_videos_query(tasks, instagram_username, email, linkedin_profile))
    IN /\ UNCHANGED <<tasks, jobs, clock, gen>>
       /\ IF ~(Truthy(instagram_username) \/ Truthy(email) \/ Truthy(linkedin_profile))
          THEN resp' = head @@ [code |-> 400,
                                body |-> [error |-> "Please provide an Instagram username, email, or LinkedIn profile to fetch videos."]]
          ELSE resp' = head @@ [code |-> 200,
                                body |-> [k \in 1..Len(found) |-> to_dict(found[k])]]

\* ------------------------------------------------------- db_service.Task
\* to_camel_case: the first '_'-separated component as it is, the others title-cased, for the
\* column names of the table
to_camel_case(snake_str) ==
    CASE snake_str = "task_id" -> "taskId"
      [] snake_str = "cloudinary_public_id" -> "cloudinaryPublicId"
      [] snake_str = "instagram_username" -> "instagramUsername"
      [] snake_str = "linkedin_profile" -> "linkedinProfile"
      [] snake_str = "original_filename" -> "originalFilename"
      [] snake_str = "cloudinary_url" -> "cloudinaryUrl"
      [] snake_str = "video_metadata" -> "videoMetadata"
      [] OTHER -> snake_str

\* Task.to_dict of db_service: every column under its camelCase name, the timestamp in ISO form
db_to_dict(t) ==
    [taskId |-> t.task_id, id |-> t.id, cloudinaryPublicId |-> Get(t, "cloudinary_public_id", None),
     instagramUsername |-> t.instagram_username, email |-> t.email,
     linkedinProfile |-> t.linkedin_profile, originalFilename |-> t.original_filename,
     status |-> t.status, cloudinaryUrl |-> t.cloudinary_url, videoMetadata |-> t.video_metadata,
     message |-> t.message, timestamp |-> isoformat(t.timestamp),
     shotstackRenderId |-> t.shotstackRenderId, shotstackUrl |-> t.shotstackUrl,
     posterUrl |-> t.posterUrl]

\* --------------------------------------------- db_service.update_task_by_id
\* for key, value in updates.items(): setattr(task, key, value)
setattr_all(task, updates) ==
    [f \in DOMAIN task |-> IF f \in DOMAIN updates THEN updates[f] ELSE task[f]]

\* the unique index on task_id refuses the flush of a row whose task_id another row has
unique_violation(table, i, task) ==
    \E j \in 1..Len(table) : j # i /\ table[j].task_id = task.task_id

\* seeded fault: a unit of work that keeps its changes when an exception leaves it
session_scope_keeps_changes(table, changed, raised) == changed

\* session_scope: commit when the block ends normally; when an exception leaves it, rollback (or
\* the close of the session without a commit) and the table is as before
session_scope(table, changed, raised) == IF raised THEN table ELSE changed

\* what can fail inside a unit of work besides the unique index: the flush or the commit
\* (None: nothing fails)
StoreFaults == {None, "OperationalError"}

\* the Task Store operation; code 0: a function result, not an HTTP response
update_task_by_id(task_id_str, updates, fault) ==
    LET i == FindTask(tasks, task_id_str)
        req == [task_id |-> task_id_str, updates |-> updates]
        task == setattr_all(tasks[i], updates)
        changed == IF i = 0 THEN tasks ELSE [tasks EXCEPT ![i] = task]
        exc == IF i # 0 /\ unique_violation(tasks, i, task) THEN "IntegrityError" ELSE fault
    IN /\ UNCHANGED <<jobs, clock, gen>>
       /\ tasks' = session_scope(tasks, changed, Truthy(exc))
       /\ resp' = [op |-> "db_service.update_task_by_id", req |-> req, code |-> 0,
                   body |-> IF Truthy(exc) THEN [raised |-> exc]
                            ELSE IF i = 0 THEN [result |-> None]
                            ELSE db_to_dict(task),
                   calls |-> NoCalls]

\* a task id no upload derives
RenamedTaskId == "renamed/clip_0a1b2c3d"

\* the partial fields an update may carry
StoreUpdates == {[message |-> "edited"]} \cup {[task_id |-> t] : t \in TaskIds \cup {RenamedTaskId}}

UpdateTask ==
    \E task_id_str \in RequestTaskIds, updates \in StoreUpdates, fault \in StoreFaults :
        update_task_by_id(task_id_str, updates, fault)

\* --------------------------------- db_service.add_task, delete_task_by_id, get_task_by_id
\* the primary key the database gives a new row
RECURSIVE MaxId(_)
MaxId(table) ==
    IF table = <<>> THEN 0
    ELSE IF Head(table).id > MaxId(Tail(table)) THEN Head(table).id ELSE MaxId(Tail(table))

\* Task(**task_data): the columns task_data does not name are NULL, the timestamp is the
\* column's default
new_row(table, task_data, now) ==
    NewTask(MaxId(table) + 1, task_data.task_id, None, None, None, None, task_data.status, now,
            None, task_data.video_metadata, None, None, None, None)

add_task(task_data, fault) ==
    LET new_task == new_row(tasks, task_data, clock)
        changed == Append(tasks, new_task)
        exc == IF unique_violation(tasks, 0, new_task) THEN "IntegrityError" ELSE fault
    IN /\ UNCHANGED <<jobs, clock, gen>>
       /\ MaxId(tasks) < MaxRowId
       /\ tasks' = session_scope(tasks, changed, Truthy(exc))
       /\ resp' = [op |-> "db_service.add_task", req |-> [task_data |-> task_data], code |-> 0,
                   body |-> IF Truthy(exc) THEN [raised |-> exc] ELSE db_to_dict(new_task),
                   calls |-> NoCalls]

\* session.query(Task).get(task_primary_key): the row's position, 0 for None
FindPk(table, task_primary_key) ==
    IF \E i \in 1..Len(table) : table[i].id = task_primary_key
    THEN CHOOSE i \in 1..Len(table) : table[i].id = task_primary_key
    ELSE 0

\* the table without the row at position i
\* seeded fault: session.delete(task) that leaves the row in the table
without_row_keeps_row(table, i) == table

without_row(table, i) == SubSeq(table, 1, i - 1) \o SubSeq(table, i + 1, Len(table))

delete_task_by_id(task_primary_key, fault) ==
    LET i == FindPk(tasks, task_primary_key)
        changed == IF i = 0 THEN tasks ELSE without_row(tasks, i)
    IN /\ UNCHANGED <<jobs, clock, gen>>
       /\ tasks' = session_scope(tasks, changed, Truthy(fault))
       /\ resp' = [op |-> "db_service.delete_task_by_id",
                   req |-> [task_primary_key |-> task_primary_key], code |-> 0,
                   body |-> IF Truthy(fault) THEN [raised |-> fault] ELSE [deleted |-> i # 0],
                   calls |-> NoCalls]

get_task_by_id(task_id_str, fault) ==
    LET i == FindTask(tasks, task_id_str)
    IN /\ UNCHANGED <<jobs, clock, gen>>
       /\ tasks' = session_scope(tasks, tasks, Truthy(fault))
       /\ resp' = [op |-> "db_service.get_task_by_id", req |-> [task_id |-> task_id_str],
                   code |-> 0,
                   body |-> IF Truthy(fault) THEN [raised |-> fault]
                            ELSE IF i = 0 THEN [result |-> None] ELSE db_to_dict(tasks[i]),
                   calls |-> NoCalls]

\* the rows a caller may add
StoreTaskData ==
    {[task_id |-> t, status |-> st, video_metadata |-> EmptyDict] :
        t \in {"alice/clip_0a1b2c3d", RenamedTaskId}, st \in {"completed", "failed"}}

AddTask == \E task_data \in StoreTaskData, fault \in StoreFaults : add_task(task_data, fault)

DeleteTask ==
    \E task_primary_key \in 1..MaxRowId, fault \in StoreFaults :
        delete_task_by_id(task_primary_key, fault)

GetTask ==
    \E task_id_str \in RequestTaskIds, fault \in StoreFaults : get_task_by_id(task_id_str, fault)

\* --------------------------------------------- cloudinary_service.check_video_existence
\* how cloudinary.api.resource(public_id, resource_type="video") ends: it returns the
\* resource, or raises NotFound, another provider error, or an error below the provider's API
ResourceOutcomes == {"found", "NotFound", "AuthorizationRequired", "ConnectionError", "AttributeError"}

\* seeded fault: every exception is taken for a missing resource
check_video_existence_error_is_gone(public_id, outcome) ==
    IF ~Truthy(public_id) THEN FALSE
    ELSE outcome = "found"

\* without a public_id the provider is not asked and the answer is False; NotFound is False,
\* the resource and every other exception are True
check_video_existence(public_id, outcome) ==
    IF ~Truthy(public_id) THEN FALSE
    ELSE IF outcome = "found" THEN TRUE
    ELSE IF outcome = "NotFound" THEN FALSE
    ELSE TRUE

\* the public ids the hosting provider is asked about
PublicIds == {None, "", "hife_video_analysis/alice/clip_0a1b2c3d", "hife_video_analysis/anonymous/clip_0a1b2c3d"}

CheckExistence ==
    \E public_id \in PublicIds, outcome \in ResourceOutcomes :
        /\ UNCHANGED <<tasks, jobs, clock, gen>>
        /\ resp' = [op |-> "cloudinary_service.check_video_existence",
                    req |-> [public_id |-> public_id], code |-> 0,
                    body |-> [exists |-> check_video_existence(public_id, outcome)],
                    calls |-> NoCalls,
                    provider |-> IF Truthy(public_id) THEN outcome ELSE None]

\* --------------------------------------------- DELETE /delete_video/{publicId}
\* the hosting provider's answers to a delete: the resource is removed, or the call fails
DestroyOutcomes == {"ok", "error"}

\* the orchestrator's delete flow: the task the public id addresses is looked up (404 when
\* there is none), the hosting resource is deleted best-effort, and the task record is removed
\* in one unit of work whatever the hosting provider answered; a persistence error rolls the
\* unit of work back and is answered with 500
delete_video(public_id, destroy, fault) ==
    LET i == FindTask(tasks, public_id)
        head == [op |-> "delete_video", req |-> [public_id |-> public_id]]
    IN /\ UNCHANGED <<jobs, clock, gen>>
       /\ IF i = 0
          THEN /\ tasks' = tasks
               /\ resp' = head @@ [code |-> 404, body |-> [error |-> "Video not found."],
                                   calls |-> NoCalls, hosting |-> None]
          ELSE /\ tasks' = session_scope(tasks, without_row(tasks, i), Truthy(fault))
               /\ resp' = head @@ [code |-> IF Truthy(fault) THEN 500 ELSE 200,
                                   body |-> IF Truthy(fault) THEN [error |-> fault]
                                            ELSE [message |-> "Video deleted."],
                                   calls |-> NoCalls, hosting |-> destroy]

DeleteVideo ==
    \E public_id \in RequestTaskIds, destroy \in DestroyOutcomes, fault \in StoreFaults :
        delete_video(public_id, destroy, fault)

\* --------------------------------------------- db_service.get_user_videos
\* filter(or_(*conditions)): one condition per supplied identifier
db_user_videos_query(table, instagram_username, email, linkedin_profile) ==
    {i \in 1..Len(table) :
        \/ Truthy(instagram_username) /\ table[i].instagram_username = instagram_username
        \/ Truthy(email) /\ table[i].email = email
        \/ Truthy(linkedin_profile) /\ table[i].linkedin_profile = linkedin_profile}

\* the Task Store operation; code 0: a function result, not an HTTP response
get_user_videos(instagram_username, email, linkedin_profile) ==
    LET found == order_by_timestamp_desc(
                     tasks, db_user_videos_query(tasks, instagram_username, email, linkedin_profile))
    IN /\ UNCHANGED <<tasks, jobs, clock, gen>>
       /\ resp' = [op |-> "db_service.get_user_videos",
                   req |-> [instagram_username |-> instagram_username, email |-> email,
                            linkedin_profile |-> linkedin_profile],
                   code |-> 0,
                   body |-> [k \in 1..Len(found) |-> db_to_dict(found[k])],
                   calls |-> NoCalls]

\* the identifiers a listing request may carry (None: not supplied)
QueryUsernames == {None, "alice"}

QueryEmails == {None, "a@x.io", "b@x.io"}

QueryProfiles == {None, "in/bob"}

ListVideos ==
    \E instagram_username \in QueryUsernames, email \in QueryEmails,
       linkedin_profile \in QueryProfiles :
        \/ UserVideos(instagram_username, email, linkedin_profile)
        \/ get_user_videos(instagram_username, email, linkedin_profile)

\* ------------------------- generate-shotstack-video, requests that interleave
\* One worker per request in flight. A worker's steps are the handler's statements between
\* which another request can run: the query and the checks on its result, the call to the
\* render provider, and the commit of the three assignments.
GenRead(w, task_id) ==
    LET pre == generate_precheck(tasks, task_id)
        i == FindTask(tasks, task_id)
    IN /\ gen[w].pc = "idle"
       /\ gen' = [gen EXCEPT ![w] =
                    IF pre.code # 0
                    THEN [pc |-> "replied", task_id |-> task_id] @@ pre
                    ELSE [pc |-> "read", task_id |-> task_id, row |-> i, task |-> tasks[i]]]
       /\ UNCHANGED <<tasks, jobs, clock, resp>>

GenSubmit(w) ==
    /\ gen[w].pc = "read"
    /\ \/ /\ jobs < MaxRenders
          /\ jobs' = jobs + 1
          /\ gen' = [gen EXCEPT ![w] = [@ EXCEPT !.pc = "submitted"]
                                       @@ [render_id |-> next_render_id(jobs)]]
       \/ \E exc \in Exceptions :
          /\ gen' = [gen EXCEPT ![w] = [pc |-> "replied", task_id |-> gen[w].task_id]
                                       @@ generate_failed(exc)]
          /\ UNCHANGED jobs
    /\ UNCHANGED <<tasks, clock, resp>>

\* commits so far among the requests still in flight
Commits == Cardinality({v \in Workers : "commit_no" \in DOMAIN gen[v]})

GenCommit(w) ==
    /\ gen[w].pc = "submitted"
    /\ tasks' = generate_commit(tasks, gen[w].row, gen[w].render_id)
    /\ gen' = [gen EXCEPT ![w] = [pc |-> "replied", task_id |-> gen[w].task_id,
                                  row |-> gen[w].row, task |-> gen[w].task,
                                  render_id |-> gen[w].render_id, commit_no |-> Commits + 1]
                                 @@ generate_ok(gen[w].render_id)]
    /\ UNCHANGED <<jobs, clock, resp>>

\* the client takes the worker's response
GenReturn(w) ==
    /\ gen[w].pc = "replied"
    /\ gen' = [gen EXCEPT ![w] = Idle]
    /\ UNCHANGED <<tasks, jobs, clock, resp>>

\* ------------------------------------------------------------------ history
\* the task ids for which the step stored the id of a newly accepted render job
Submitted ==
    {tasks'[i].task_id : i \in {j \in 1..Len(tasks') :
        /\ Truthy(tasks'[j].shotstackRenderId)
        /\ j <= Len(tasks) => tasks'[j].shotstackRenderId # tasks[j].shotstackRenderId}}

\* the task ids whose status after the step is terminal
Settled == {tasks'[i].task_id : i \in {j \in 1..Len(tasks') : tasks'[j].status \in TerminalStatuses}}

Track == unsettled' = (unsettled \ Settled) \cup Submitted

\* the client takes the response; the server is ready for the next request
Return ==
    /\ resp # NoResponse
    /\ resp' = NoResponse
    /\ before' = <<>>
    /\ UNCHANGED <<tasks, jobs, clock, gen, unsettled>>

\* requests are served one at a time
Serve(handler) ==
    /\ resp = NoResponse
    /\ handler
    /\ Track
    /\ before' = tasks

Next ==
    \/ Serve(Upload)
    \/ Serve(TaskStatus)
    \/ Serve(Generate)
    \/ Serve(Process)
    \/ Serve(ListVideos)
    \/ Return

Spec == Init /\ [][Next]_vars

\* the owners whose uploads the interleaved requests work on
RaceOwners ==
    {owner \in Owners : owner.instagram_username \in {None, "alice"} /\ Truthy(owner.email)}

\* uploads, and generate-shotstack-video requests whose steps interleave; with requests in
\* flight together no one table is "the table the request found", so `before` is not kept
NextRace ==
    \/ /\ resp = NoResponse
       /\ \/ \E has_file \in BOOLEAN : UploadInvalid(has_file)
          \/ \E filename \in Filenames, owner \in RaceOwners, hash \in Hashes,
                answer \in HostingAnswers \cup UploadExceptions :
                  UploadVideo(filename, owner, hash, answer)
       /\ Track
       /\ UNCHANGED before
    \/ Return
    \/ \E w \in Workers, task_id \in RequestTaskIds : GenRead(w, task_id) /\ UNCHANGED <<unsettled, before>>
    \/ \E w \in Workers : GenSubmit(w) /\ UNCHANGED <<unsettled, before>>
    \/ \E w \in Workers : GenCommit(w) /\ Track /\ UNCHANGED before
    \/ \E w \in Workers : GenReturn(w) /\ UNCHANGED <<unsettled, before>>

SpecRace == Init /\ [][NextRace]_vars

\* uploads, and callers of the Task Store's update
NextStore ==
    \/ Serve(Upload)
    \/ Serve(UpdateTask)
    \/ Return

SpecStore == Init /\ [][NextStore]_vars

\* callers of the Task Store's units of work and of the hosting client's existence check
NextUnit ==
    \/ Serve(AddTask)
    \/ Serve(UpdateTask)
    \/ Serve(DeleteTask)
    \/ Serve(GetTask)
    \/ Serve(CheckExistence)
    \/ Return

SpecUnit == Init /\ [][NextUnit]_vars

\* callers that add tasks, and requests to delete a video
NextDelete ==
    \/ Serve(AddTask)
    \/ Serve(DeleteVideo)
    \/ Return

SpecDelete == Init /\ [][NextDelete]_vars

\* callers of the payload builder
NextPayload ==
    \/ Serve(BuildConcat)
    \/ Serve(BuildSingle)
    \/ Return

SpecPayload == Init /\ [][NextPayload]_vars

\* --------------------------------- GET /task-status/<id>, requests in flight together
\* each request has its own session: it reads the row, asks the render provider, assigns the
\* outcome to its own Task object and commits, which writes the assigned columns to the row
OthersIdle(w) == \A v \in Workers \ {w} : gen[v] = Idle

\* the others are still at work, or idle: none has a response waiting to be taken
OthersAtWork(w) == \A v \in Workers \ {w} : gen[v].pc \in {"idle", "st_read", "st_polled"}

\* the others have finished, or are idle
OthersDone(w) == \A v \in Workers \ {w} : gen[v].pc \in {"idle", "st_replied"}

\* a client issues at most one query per worker and takes the responses when all have replied;
\* the first query of such a group records the table it found
StRead(w, task_id) ==
    LET i == FindTask(tasks, task_id)
    IN /\ resp = NoResponse
       /\ gen[w] = Idle
       /\ OthersAtWork(w)
       /\ gen' = [gen EXCEPT ![w] =
                    IF i = 0
                    THEN [pc |-> "st_replied", task_id |-> task_id, code |-> 404, polled |-> FALSE]
                    ELSE IF render_pending(tasks[i])
                    THEN [pc |-> "st_read", task_id |-> task_id, row |-> i, task |-> tasks[i]]
                    ELSE [pc |-> "st_replied", task_id |-> task_id, code |-> 200,
                          polled |-> FALSE, body |-> to_dict(tasks[i])]]
       /\ before' = IF OthersIdle(w) THEN tasks ELSE before
       /\ UNCHANGED <<tasks, jobs, clock, resp, unsettled>>

\* get_shotstack_render_status answers, or raises
StPoll(w) ==
    /\ gen[w].pc = "st_read"
    /\ \/ \E status_info \in StatusAnswers(gen[w].task.shotstackRenderId) :
            gen' = [gen EXCEPT ![w] = [@ EXCEPT !.pc = "st_polled"] @@ [answer |-> status_info]]
       \/ \E exc \in Exceptions :
            gen' = [gen EXCEPT ![w] =
                      [pc |-> "st_replied", task_id |-> gen[w].task_id, code |-> 200,
                       polled |-> TRUE, answer |-> [raised |-> exc], task |-> gen[w].task,
                       body |-> to_dict(status_check_raised(gen[w].task, exc))]]
    /\ UNCHANGED <<tasks, jobs, clock, resp, unsettled, before>>

\* seeded fault: a commit that adds its message to the message the row carries
status_commit_appends_message(table, i, task_info, task_id, status_info) ==
    LET after == reconcile(task_info, task_id, status_info)
    IN IF reconcile_commits(status_info)
       THEN [table EXCEPT ![i] = [@ EXCEPT !.status = after.status,
                                          !.message = @ \o after.message,
                                          !.shotstackUrl = after.shotstackUrl,
                                          !.posterUrl = after.posterUrl]]
       ELSE table

\* session.commit() of the branch on the provider's answer: the columns the branch assigned
\* are written to the row; the in-progress branch commits nothing
status_commit(table, i, task_info, task_id, status_info) ==
    LET after == reconcile(task_info, task_id, status_info)
    IN IF reconcile_commits(status_info)
       THEN [table EXCEPT ![i] = [@ EXCEPT !.status = after.status,
                                          !.message = after.message,
                                          !.shotstackUrl = after.shotstackUrl,
                                          !.posterUrl = after.posterUrl]]
       ELSE table

StCommit(w) ==
    /\ gen[w].pc = "st_polled"
    /\ tasks' = status_commit(tasks, gen[w].row, gen[w].task, gen[w].task_id, gen[w].answer)
    /\ gen' = [gen EXCEPT ![w] =
                 [pc |-> "st_replied", task_id |-> gen[w].task_id, code |-> 200,
                  polled |-> TRUE, answer |-> gen[w].answer, task |-> gen[w].task,
                  body |-> status_response(reconcile(gen[w].task, gen[w].task_id, gen[w].answer),
                                           gen[w].answer.poster)]]
    /\ Track
    /\ UNCHANGED <<jobs, clock, resp, before>>

\* the client takes the query's response
StReturn(w) ==
    /\ gen[w].pc = "st_replied"
    /\ OthersDone(w)
    /\ gen' = [gen EXCEPT ![w] = Idle]
    /\ before' = IF OthersIdle(w) THEN <<>> ELSE before
    /\ UNCHANGED <<tasks, jobs, clock, resp, unsettled>>

\* no status query is in flight
AllIdle == \A w \in Workers : gen[w] = Idle

\* uploads and render submissions served one at a time, and status queries whose steps
\* interleave
NextStatusRace ==
    \/ /\ AllIdle
       /\ resp = NoResponse
       /\ \E filename \in Filenames, owner \in RaceOwners, hash \in Hashes :
               UploadVideo(filename, owner, hash, "full")
       /\ Track
       /\ before' = tasks
    \/ AllIdle /\ Serve(\E task_id \in TaskIds : GenerateShotstackVideo(task_id))
    \/ AllIdle /\ Serve(\E task_ids \in [1..2 -> TaskIds], owner \in ProcessOwners, hash \in Hashes :
                            ProcessVideos(task_ids, TRUE, owner, hash))
    \/ Return
    \/ \E w \in Workers, task_id \in RequestTaskIds : StRead(w, task_id)
    \/ \E w \in Workers : StPoll(w)
    \/ \E w \in Workers : StCommit(w)
    \/ \E w \in Workers : StReturn(w)

SpecStatusRace == Init /\ [][NextStatusRace]_vars

\* the task ids a polling client may hold: those of the uploads of RaceOwners and those of
\* the concatenations
PollTaskIds ==
    {"alice/clip_0a1b2c3d", "anonymous/clip_0a1b2c3d"}
    \cup {"concatenated_video_" \o next_render_id(j) : j \in 0..MaxRenders - 1}

\* the answers of the render provider that report a render as ended
EndedStatuses == {"done"} \cup FailureStatuses

\* a status query for the task that reaches the render provider and is answered with an ended
\* render
PollEnded(task_id) ==
    /\ Serve(GetTaskStatus(task_id))
    /\ "answer" \in DOMAIN resp'.req
    /\ "status" \in DOMAIN resp'.req.answer
    /\ resp'.req.answer.status \in EndedStatuses

\* the same, the answer 'done' carrying the URL of the output
PollEndedWithUrl(task_id) ==
    /\ PollEnded(task_id)
    /\ resp'.req.answer.status = "done" => Truthy(resp'.req.answer.url)

\* uploads, render submissions and status queries of a client that polls the tasks it has
\* created
NextPoll ==
    \/ /\ resp = NoResponse
       /\ \E filename \in Filenames, owner \in RaceOwners, hash \in Hashes,
             answer \in {"full"} \cup UploadExceptions :
               UploadVideo(filename, owner, hash, answer)
       /\ Track
       /\ before' = tasks
    \/ Serve(\E task_id \in TaskIds : GenerateShotstackVideo(task_id))
    \/ Serve(\E task_ids \in [1..2 -> TaskIds], owner \in ProcessOwners, hash \in Hashes :
                ProcessVideos(task_ids, TRUE, owner, hash))
    \/ Serve(\E task_id \in TaskIds : GetTaskStatus(task_id))
    \/ Return

\* the client takes every response, and as long as a task's render is outstanding it keeps
\* asking for its status and the render provider keeps reporting the render as ended
SpecPoll ==
    /\ Init
    /\ [][NextPoll]_vars
    /\ WF_vars(Return)
    /\ \A task_id \in PollTaskIds : SF_vars(PollEnded(task_id))

\* ------------------------------------------------------------------ properties
MediaFields == {"duration", "width", "height", "bytes"}

\* C1: in every reachable state, every task whose status is 'completed' has a non-null
\* cloudinary_url and stored metadata with duration, width, height and bytes all > 0.
C1_CompletedHasValidMedia ==
    \A i \in 1..Len(tasks) :
        tasks[i].status = "completed" =>
            /\ Truthy(tasks[i].cloudinary_url)
            /\ \A f \in MediaFields : Get(tasks[i].video_metadata, f, 0) > 0

\* an upload request that the hosting provider answered with a response dict
UploadAnswered ==
    /\ resp.op = "upload_video"
    /\ "answer" \in DOMAIN resp.req
    /\ "raised" \notin DOMAIN resp.req.answer

\* a hosting response with duration, width, height or bytes missing or <= 0
InvalidMedia(result) == \E f \in MediaFields : f \notin DOMAIN result \/ result[f] <= 0

\* the row an upload request has written
Persisted == tasks[FindTask(tasks, resp.req.task_id)]

\* what C2 says of an upload with invalid media: the stored row and the response
StoredIncomplete ==
    /\ Persisted.status = "cloudinary_metadata_incomplete"
    /\ Truthy(Persisted.cloudinary_url)
    /\ Persisted.cloudinary_url = Get(resp.req.answer, "secure_url", None)
    /\ Persisted.video_metadata = resp.req.answer
    /\ resp.code = 500
    /\ Get(resp.body, "taskId", None) = resp.req.task_id
    /\ Get(resp.body, "metadata", None) = resp.req.answer

\* C2 as stated: every upload whose hosting response has duration, width, height or bytes
\* <= 0 or missing is stored as 'cloudinary_metadata_incomplete' with the hosting URL and
\* the partial metadata, and answered with HTTP 500 carrying the task id and the metadata.
C2_InvalidMediaStoredIncomplete ==
    (UploadAnswered /\ InvalidMedia(resp.req.answer)) => StoredIncomplete

\* C2, amended: no upload whose hosting response has invalid media leaves its task
\* 'completed'; when the response carries a secure_url the task is stored as
\* 'cloudinary_metadata_incomplete' with that URL and the partial metadata and the request
\* is answered with HTTP 500 carrying the task id and the metadata; when it carries none
\* the task is stored as 'cloudinary_upload_failed'.
C2_InvalidMediaNeverCompleted ==
    (UploadAnswered /\ InvalidMedia(resp.req.answer)) =>
        /\ Persisted.status # "completed"
        /\ IF Truthy(Get(resp.req.answer, "secure_url", None))
           THEN StoredIncomplete
           ELSE Persisted.status = "cloudinary_upload_failed" /\ resp.code = 500

\* an upload whose response lacks the size has been stored as incomplete
C2_Witness ==
    /\ UploadAnswered
    /\ "bytes" \notin DOMAIN resp.req.answer
    /\ Truthy(Get(resp.req.answer, "secure_url", None))
    /\ Persisted.status = "cloudinary_metadata_incomplete"
    /\ resp.code = 500

\* a generate-shotstack-video request that found its task 'shotstack_pending' with a render id
GenerateOnPending ==
    /\ resp.op = "generate-shotstack-video"
    /\ FindTask(before, resp.req.task_id) # 0
    /\ before[FindTask(before, resp.req.task_id)].status = "shotstack_pending"
    /\ Truthy(before[FindTask(before, resp.req.task_id)].shotstackRenderId)

\* such a request is answered 200 with the stored render id, without a provider call, and
\* changes no task
PendingAnsweredFromStore ==
    GenerateOnPending =>
        /\ resp.code = 200
        /\ Get(resp.body, "shotstackRenderId", None)
             = before[FindTask(before, resp.req.task_id)].shotstackRenderId
        /\ resp.calls = NoCalls
        /\ tasks = before

ValidSources(table, task_ids) ==
    SelectSeq(task_ids, LAMBDA id :
        /\ FindTask(table, id) # 0
        /\ table[FindTask(table, id)].status = "completed"
        /\ Truthy(table[FindTask(table, id)].cloudinary_url)
        /\ table[FindTask(table, id)].video_metadata # EmptyDict)

\* C4: a process_videos request with connect_videos = true and fewer than two valid sources
\* among the supplied ids fails with a 4xx response, calls no provider and changes no task.
C4_ConcatNeedsTwoSources ==
    (/\ resp.op = "process_videos"
     /\ resp.req.connect_videos
     /\ Len(ValidSources(before, resp.req.task_ids)) < 2)
    => (/\ resp.code \in 400..499
        /\ resp.calls = NoCalls
        /\ tasks = before)

\* the statuses the lifecycle defines
LifecycleStatuses ==
    {"completed", "failed", "shotstack_pending", "concatenated_pending",
     "concatenated_completed", "concatenated_failed", "cloudinary_metadata_incomplete",
     "cloudinary_upload_failed"}

\* a status query that the render provider answered with a status record
Reconciling ==
    /\ resp.op = "task-status"
    /\ resp.calls.poll = 1
    /\ "status" \in DOMAIN resp.req.answer

\* the three outcomes of a reconciling query for the row at position i
BecomesCompleted(i) ==
    /\ tasks[i].status \in {"completed", "concatenated_completed"}
    /\ tasks[i].status # before[i].status

BecomesFailed(i) ==
    /\ tasks[i].status \in {"failed", "concatenated_failed"}
    /\ tasks[i].status # before[i].status

OnlyMessageDiffers(i) ==
    /\ tasks[i].status = before[i].status
    /\ [tasks[i] EXCEPT !.message = before[i].message] = before[i]

\* C5: on a reconciling status query every provider status value produces exactly one of
\* three outcomes: the task becomes completed/concatenated_completed, it becomes
\* failed/concatenated_failed, or its status stays and at most its message differs; and
\* every stored status is one of the lifecycle statuses.
C5_StatusMappingComplete ==
    /\ Reconciling =>
         LET i == FindTask(before, resp.req.task_id)
         IN Cardinality({o \in {"completed", "failed", "unchanged"} :
                            \/ o = "completed" /\ BecomesCompleted(i)
                            \/ o = "failed" /\ BecomesFailed(i)
                            \/ o = "unchanged" /\ OnlyMessageDiffers(i)}) = 1
    /\ \A j \in 1..Len(tasks) : tasks[j].status \in LifecycleStatuses

\* a reconciling query got a status the provider does not define (none at all) and the task
\* is still pending
C5_Witness ==
    /\ Reconciling
    /\ resp.req.answer.status = None
    /\ before[FindTask(before, resp.req.task_id)].status = "shotstack_pending"
    /\ tasks[FindTask(tasks, resp.req.task_id)].status = "shotstack_pending"

RenderFields == {"status", "shotstackRenderId", "shotstackUrl", "posterUrl"}

\* a status query whose provider call raised
CheckRaised ==
    /\ resp.op = "task-status"
    /\ "answer" \in DOMAIN resp.req
    /\ "raised" \in DOMAIN resp.req.answer

\* C6: when the provider's status call raises during a status query for a pending task, the
\* handler returns 200 and status, shotstackRenderId, shotstackUrl and posterUrl are as before
\* the query, in the response and in the store.
C6_RaisedCheckKeepsTask ==
    CheckRaised =>
        LET i == FindTask(before, resp.req.task_id)
        IN /\ resp.code = 200
           /\ \A f \in RenderFields :
                /\ resp.body[f] = before[i][f]
                /\ tasks[i][f] = before[i][f]

\* a status query for a pending task whose provider call raised has been answered
C6_Witness ==
    /\ CheckRaised
    /\ resp.code = 200
    /\ before[FindTask(before, resp.req.task_id)].status = "shotstack_pending"
    /\ resp.body.status = "shotstack_pending"

\* no render is pending for a task: no render id, or a terminal status
NoRenderPending(task) ==
    \/ ~Truthy(task.shotstackRenderId)
    \/ task.status \in {"completed", "failed", "concatenated_completed", "concatenated_failed"}

\* a status query for a task that has no render pending
QuietStatusQuery ==
    /\ resp.op = "task-status"
    /\ FindTask(before, resp.req.task_id) # 0
    /\ NoRenderPending(before[FindTask(before, resp.req.task_id)])

\* C7: a status query for a task with no pending render returns the stored task as JSON,
\* calls no provider and leaves the store unchanged; so two such queries in a row, nothing
\* in between, read the same store and return identical JSON.
C7_IdempotentStatusRead ==
    QuietStatusQuery =>
        /\ resp.code = 200
        /\ resp.body = to_dict(before[FindTask(before, resp.req.task_id)])
        /\ resp.calls = NoCalls
        /\ tasks = before

\* a status query for a task that has a render id and is completed has been answered from the
\* store
C7_Witness ==
    /\ QuietStatusQuery
    /\ resp.code = 200
    /\ Truthy(resp.body.shotstackRenderId)
    /\ resp.body.status = "completed"
    /\ resp.body = to_dict(tasks[FindTask(tasks, resp.req.task_id)])

\* a listing request, by the Task Store operation or by the endpoint, that supplies at least
\* one identifier
Listed ==
    /\ resp.op \in {"db_service.get_user_videos", "user-videos"}
    /\ \/ Truthy(resp.req.instagram_username)
       \/ Truthy(resp.req.email)
       \/ Truthy(resp.req.linkedin_profile)

\* the rows that at least one supplied identifier names
OwnedBy(req) ==
    {i \in 1..Len(tasks) :
        \/ Truthy(req.instagram_username) /\ tasks[i].instagram_username = req.instagram_username
        \/ Truthy(req.email) /\ tasks[i].email = req.email
        \/ Truthy(req.linkedin_profile) /\ tasks[i].linkedin_profile = req.linkedin_profile}

\* C8: a listing by owner, by the Task Store operation and by the /user-videos endpoint alike,
\* returns exactly the tasks that at least one supplied identifier names, each once, newest
\* first.
C8_ListByOwnerIsOr ==
    Listed =>
        /\ resp.code \in {0, 200}
        /\ Len(resp.body) = Cardinality(OwnedBy(resp.req))
        /\ \A i \in OwnedBy(resp.req) : \E k \in 1..Len(resp.body) : resp.body[k] = to_dict(tasks[i])
        /\ \A k \in 1..Len(resp.body) - 1 :
             tasks[FindTask(tasks, resp.body[k].taskId)].timestamp
               >= tasks[FindTask(tasks, resp.body[k + 1].taskId)].timestamp

\* two requests for one task, both answered after a commit, w the later committer, and w had
\* read the task before v committed
Raced(v, w) ==
    /\ v # w
    /\ "commit_no" \in DOMAIN gen[v]
    /\ "commit_no" \in DOMAIN gen[w]
    /\ gen[v].row = gen[w].row
    /\ gen[v].commit_no < gen[w].commit_no
    /\ gen[w].task.shotstackRenderId # gen[v].render_id

\* C9: when two generate-shotstack-video requests for one task interleave so that both read
\* the task before either commits, both get a job accepted by the provider, the task stores
\* the render id of the request that committed last, and the other job is referenced by no
\* task.
C9_LastCommitWins ==
    \A v, w \in Workers :
        Raced(v, w) =>
            /\ gen[v].render_id # gen[w].render_id
            /\ jobs >= 2
            /\ gen[v].code = 200 /\ gen[w].code = 200
            /\ tasks[gen[w].row].shotstackRenderId = gen[w].render_id
            /\ \A i \in 1..Len(tasks) : tasks[i].shotstackRenderId # gen[v].render_id

\* both requests read the task as it was before either commit, and both have committed
C9_Witness ==
    \E v, w \in Workers :
        /\ Raced(v, w)
        /\ gen[v].task = gen[w].task
        /\ gen[v].task.status = "completed"

RECURSIVE SumOfDurations(_, _)
SumOfDurations(table, ids) ==
    IF ids = <<>> THEN 0
    ELSE table[FindTask(table, Head(ids))].video_metadata.duration
         + SumOfDurations(table, Tail(ids))

\* a process_videos request with connect_videos = true and at least two valid sources
ConcatRequest ==
    /\ resp.op = "process_videos"
    /\ resp.req.connect_videos
    /\ Len(ValidSources(before, resp.req.task_ids)) >= 2

\* C10: such a request submits exactly one render, whose clips are the sources' hosting URLs
\* in the order the ids were supplied; when the provider accepts it, the store gains exactly
\* one task, with task_id 'concatenated_video_' + the render id returned, status
\* 'concatenated_pending', that render id, combined_from_tasks the valid ids in the order
\* supplied and total_duration the sum of the sources' durations.
C10_ConcatenationTask ==
    ConcatRequest =>
        LET sources == ValidSources(before, resp.req.task_ids)
            new == tasks[Len(tasks)]
        IN /\ Len(resp.calls.submit) = 1
           /\ [k \in 1..Len(resp.calls.submit[1].clips) |-> resp.calls.submit[1].clips[k].src]
                = [k \in 1..Len(sources) |-> before[FindTask(before, sources[k])].cloudinary_url]
           /\ resp.code \in {200, 500}
           /\ resp.code = 200 =>
                /\ tasks = Append(before, new)
                /\ new.task_id = "concatenated_video_" \o resp.body.shotstackRenderId
                /\ resp.body.concatenated_task_id = new.task_id
                /\ new.status = "concatenated_pending"
                /\ new.shotstackRenderId = resp.body.shotstackRenderId
                /\ new.video_metadata.combined_from_tasks = sources
                /\ new.video_metadata.total_duration = SumOfDurations(before, sources)

\* a concatenation of two different tasks, supplied newest first, has been accepted
C10_Witness ==
    /\ ConcatRequest
    /\ resp.code = 200
    /\ Len(resp.req.task_ids) = 2
    /\ FindTask(before, resp.req.task_ids[1]) > FindTask(before, resp.req.task_ids[2])
    /\ tasks[Len(tasks)].video_metadata.combined_from_tasks = resp.req.task_ids

\* the row of the queried task as the status query found it, and as it left it
Found == before[FindTask(before, resp.req.task_id)]

Stored == tasks[FindTask(tasks, resp.req.task_id)]

SuccessMessages == {"Shotstack video rendered successfully.", "Concatenated video rendered successfully."}

\* what a reconciling query that counts the render as finished leaves behind: the finished
\* status of the task's branch, the provider's URLs and a message of success, stored and answered
FinishedAndStored ==
    /\ resp.code = 200
    /\ Stored.status = IF StartsWith(resp.req.task_id, "concatenated_video_")
                       THEN "concatenated_completed" ELSE "completed"
    /\ Found.status = "concatenated_pending" => Stored.status = "concatenated_completed"
    /\ Stored.shotstackUrl = resp.req.answer.url
    /\ Stored.posterUrl = resp.req.answer.poster
    /\ Stored.message \in SuccessMessages
    /\ resp.body.status = Stored.status
    /\ resp.body.shotstackUrl = Stored.shotstackUrl

ErrorText(status_info) ==
    IF Truthy(status_info.error_message) THEN status_info.error_message
    ELSE "Unknown Shotstack error"

CreatedByConcatenation(task) == "combined_from_tasks" \in DOMAIN task.video_metadata

\* C13: reconciliation assigns 'concatenated_completed' or 'concatenated_failed' to a task if
\* and only if the concatenation path of process_videos created that task; a task created by
\* upload_video, whatever its owner name and filename, receives only 'completed' or 'failed'.
C13_ConcatenatedStatusOnlyForConcatenation ==
    (Reconciling /\ Stored.status # Found.status)
    => /\ Stored.status \in {"concatenated_completed", "concatenated_failed"}
            <=> CreatedByConcatenation(Found)
       /\ ~CreatedByConcatenation(Found) => Stored.status \in {"completed", "failed"}

\* the status changes the documented lifecycle allows for an existing task
LifecycleSteps ==
    { <<"completed", "shotstack_pending">>,
      <<"shotstack_pending", "completed">>,
      <<"shotstack_pending", "failed">>,
      <<"concatenated_pending", "concatenated_completed">>,
      <<"concatenated_pending", "concatenated_failed">> }

\* the statuses an upload ends in
UploadOutcomes == {"completed", "cloudinary_metadata_incomplete", "cloudinary_upload_failed"}

\* C14: a task's status changes only along the documented lifecycle: an upload ends in
\* completed, metadata-incomplete or upload-failed; a task enters 'shotstack_pending' only
\* from 'completed' and leaves it only to 'completed' or 'failed'; a concatenation task starts
\* in 'concatenated_pending' and leaves it only to 'concatenated_completed' or
\* 'concatenated_failed'; no request moves a task from a metadata-incomplete, upload-failed
\* or failed status into 'shotstack_pending'.
C14_LifecycleOnly ==
    resp # NoResponse =>
        \A i \in 1..Len(tasks) :
            IF i > Len(before)
            THEN tasks[i].status \in (IF resp.op = "upload_video" THEN UploadOutcomes
                                      ELSE {"concatenated_pending"})
            ELSE \/ tasks[i].status = before[i].status
                 \/ resp.op = "upload_video" /\ tasks[i].status \in UploadOutcomes
                 \/ resp.op # "upload_video"
                      /\ <<before[i].status, tasks[i].status>> \in LifecycleSteps

\* C15: no two tasks in the Task Store ever share a task_id, and no operation (upload, render
\* request, concatenation, status query, or Task Store update) changes the task_id of an
\* existing task; an upload whose derived task_id already exists overwrites that row instead
\* of adding a second one.
C15_TaskIdUniqueImmutable ==
    /\ \A i, j \in 1..Len(tasks) : tasks[i].task_id = tasks[j].task_id => i = j
    /\ resp # NoResponse =>
         /\ \A i \in 1..Len(before) : tasks[i].task_id = before[i].task_id
         /\ (resp.op = "upload_video" /\ "task_id" \in DOMAIN resp.req
                /\ FindTask(before, resp.req.task_id) # 0) => Len(tasks) = Len(before)

\* C16: a status query calls the render provider if and only if the task has a non-null
\* shotstackRenderId and its status is not one of completed, failed, concatenated_completed,
\* concatenated_failed; when it calls, it makes exactly one provider status call (no retry),
\* and it submits nothing and uploads nothing.
C16_PollsIffRenderOutstanding ==
    resp.op = "task-status" =>
        /\ resp.calls.poll \in {0, 1}
        /\ resp.calls.submit = <<>> /\ resp.calls.upload = 0
        /\ resp.calls.poll = 1 <=>
              /\ FindTask(before, resp.req.task_id) # 0
              /\ Found.shotstackRenderId # None
              /\ Found.status \notin {"completed", "failed", "concatenated_completed",
                                      "concatenated_failed"}

\* a status query for a pending concatenation task has asked the provider once
C16_Witness ==
    /\ resp.op = "task-status"
    /\ resp.calls.poll = 1
    /\ Found.status = "concatenated_pending"
    /\ Found.shotstackRenderId # None

\* the messages that describe a failed status check
CheckFailureMessages(exc) ==
    {"Error checking Shotstack status: " \o exc,
     "Unexpected error during Shotstack status check: " \o exc}

\* C17: after a status query whose render-provider call failed, the task's message in the
\* Task Store describes the failure, so a later read of the task shows that message, while
\* no other field of the stored row differs.
C17_RaisedCheckStoresMessage ==
    CheckRaised =>
        /\ Stored.message \in CheckFailureMessages(resp.req.answer.raised)
        /\ [Stored EXCEPT !.message = Found.message] = Found

\* a reconciling query that the provider answered with a status that is neither success nor
\* a failure value
InProgressAnswer ==
    /\ Reconciling
    /\ resp.req.answer.status \notin {"done", "failed", "error", "failed_due_to_timeout"}

ProgressMessage == "Shotstack render in progress: " \o resp.req.answer.status

\* C18 as stated: when the provider reports a status that is neither success nor a failure
\* value, the status query leaves the task's status, shotstackRenderId, shotstackUrl and
\* posterUrl unchanged and updates only the task's message.
C18_InProgressUpdatesMessage ==
    InProgressAnswer =>
        /\ \A f \in RenderFields : Stored[f] = Found[f]
        /\ Stored = [Found EXCEPT !.message = ProgressMessage]

\* C18, amended: such a query stores nothing, the message included; its response is the
\* stored task with the in-progress message in place of the stored one and, when the provider
\* names a poster, that poster in place of the stored posterUrl.
C18_InProgressStoresNothing ==
    InProgressAnswer =>
        /\ tasks = before
        /\ resp.code = 200
        /\ resp.body = [to_dict(Found) EXCEPT
                          !.message = ProgressMessage,
                          !.posterUrl = IF Truthy(resp.req.answer.poster)
                                        THEN resp.req.answer.poster ELSE Found.posterUrl]

\* a render still in progress, for which the provider already names a poster, has been queried
C18_Witness ==
    /\ InProgressAnswer
    /\ resp.req.answer.status = "rendering"
    /\ Truthy(resp.req.answer.poster)
    /\ resp.body.posterUrl = resp.req.answer.poster
    /\ Stored.posterUrl = None
    /\ resp.body.message = "Shotstack render in progress: rendering"
    /\ Stored.message # resp.body.message

\* a hosting response with a fetchable URL and duration, width, height and bytes all > 0
ValidMedia(result) ==
    /\ Truthy(Get(result, "secure_url", None))
    /\ \A f \in MediaFields : f \in DOMAIN result /\ result[f] > 0

\* C19: an upload whose hosting-provider response carries a fetchable URL and duration, width,
\* height and bytes all > 0 leaves one task of its task id, with status 'completed',
\* cloudinary_url equal to the provider's URL and metadata equal to the provider's response,
\* and returns HTTP 200 with that task id.
C19_ValidUploadCompletes ==
    (UploadAnswered /\ ValidMedia(resp.req.answer))
    => /\ resp.code = 200
       /\ resp.body.taskId = resp.req.task_id
       /\ resp.body.status = "completed"
       /\ Cardinality({i \in 1..Len(tasks) : tasks[i].task_id = resp.req.task_id}) = 1
       /\ Len(tasks) = Len(before) + (IF FindTask(before, resp.req.task_id) = 0 THEN 1 ELSE 0)
       /\ Persisted.status = "completed"
       /\ Persisted.cloudinary_url = resp.req.answer.secure_url
       /\ Persisted.video_metadata = resp.req.answer
       /\ Persisted.video_metadata.duration = 10

\* alice's 10-second upload has been accepted: a new completed task
C19_Witness ==
    /\ UploadAnswered
    /\ ValidMedia(resp.req.answer)
    /\ resp.req.owner.instagram_username = "alice"
    /\ resp.code = 200
    /\ FindTask(before, resp.req.task_id) = 0
    /\ Persisted.status = "completed"
    /\ Persisted.video_metadata.duration = 10

\* C20: an upload whose hosting-provider response has no fetchable URL is reported as a
\* failure (HTTP 500) and never yields a task with status 'completed' or a non-null
\* cloudinary_url: the task is persisted with status 'cloudinary_upload_failed' and a null URL.
C20_NoUrlUploadFails ==
    (UploadAnswered /\ ~Truthy(Get(resp.req.answer, "secure_url", None)))
    => /\ resp.code = 500
       /\ Persisted.status = "cloudinary_upload_failed"
       /\ Persisted.cloudinary_url = None

\* an upload request whose hosting call raised
UploadRaised ==
    /\ resp.op = "upload_video"
    /\ "answer" \in DOMAIN resp.req
    /\ "raised" \in DOMAIN resp.req.answer

\* a generate-shotstack-video request, or a concatenation, whose render submission failed
SubmissionFailed ==
    /\ \/ resp.op = "generate-shotstack-video"
       \/ resp.op = "process_videos" /\ resp.req.connect_videos
    /\ "provider" \in DOMAIN resp
    /\ resp.provider # "ok"

\* no task is created, and no task's status or shotstackRenderId changes
NoTaskCreatedOrMoved ==
    /\ Len(tasks) = Len(before)
    /\ \A i \in 1..Len(before) :
          /\ tasks[i].status = before[i].status
          /\ tasks[i].shotstackRenderId = before[i].shotstackRenderId

FailsValidation ==
    \/ resp.op = "upload_video" /\ "has_file" \in DOMAIN resp.req
    \/ resp.op = "generate-shotstack-video" /\ ~Truthy(resp.req.task_id)
    \/ resp.op = "process_videos" /\ resp.req.task_ids = <<>>
    \/ /\ resp.op = "user-videos"
       /\ ~Truthy(resp.req.instagram_username)
       /\ ~Truthy(resp.req.email)
       /\ ~Truthy(resp.req.linkedin_profile)

\* C22: a request that fails input validation because the file is missing or has an empty
\* name, the taskId is missing, the task_ids list is missing or empty, or no owner identifier
\* is given (user-videos) returns HTTP 400, calls neither external provider and leaves the
\* Task Store unchanged.
C22_ValidationErrorIs400 ==
    FailsValidation =>
        /\ resp.code = 400
        /\ resp.calls = NoCalls
        /\ tasks = before

\* a process_videos request without task ids has been refused while the store holds a task
C22_Witness ==
    /\ resp.op = "process_videos"
    /\ resp.req.task_ids = <<>>
    /\ resp.code = 400
    /\ Len(tasks) > 0

\* an upload request that carries a file but no owner identifier
UploadWithoutOwner ==
    /\ resp.op = "upload_video"
    /\ "owner" \in DOMAIN resp.req
    /\ ~Truthy(resp.req.owner.instagram_username)
    /\ ~Truthy(resp.req.owner.email)
    /\ ~Truthy(resp.req.owner.linkedin_profile)

\* C23: an upload_video request that supplies a file but no owner identifier
\* (instagram_username, email and linkedin_profile all absent or empty) returns HTTP 400,
\* uploads nothing to the hosting provider and creates no task.
C23_UploadNeedsOwner ==
    UploadWithoutOwner =>
        /\ resp.code = 400
        /\ resp.calls.upload = 0
        /\ Len(tasks) = Len(before)

\* a task id that no task of the table has
NotInStore(table, task_id) == \A i \in 1..Len(table) : table[i].task_id # task_id

\* a request for what the Task Store does not hold: a task-status or generate-shotstack-video
\* request for an unknown task id, a process_videos request none of whose ids is a valid task
AsksForMissing ==
    \/ resp.op = "task-status" /\ NotInStore(before, resp.req.task_id)
    \/ /\ resp.op = "generate-shotstack-video"
       /\ Truthy(resp.req.task_id)
       /\ NotInStore(before, resp.req.task_id)
    \/ /\ resp.op = "process_videos"
       /\ resp.req.task_ids # <<>>
       /\ ValidSources(before, resp.req.task_ids) = <<>>

\* C24: a task-status or generate-shotstack-video request for a task id that is not in the
\* Task Store, and a process_videos request in which none of the supplied ids is a valid
\* task, returns HTTP 404, makes no provider call and leaves the Task Store unchanged.
C24_MissingIs404 ==
    AsksForMissing =>
        /\ resp.code = 404
        /\ resp.calls = NoCalls
        /\ tasks = before

\* a process_videos request naming a task that exists but is not completed has been refused
C24_Witness ==
    /\ resp.op = "process_videos"
    /\ resp.code = 404
    /\ Len(resp.req.task_ids) = 1
    /\ ~NotInStore(before, resp.req.task_ids[1])

\* a Task Store operation has returned, or an exception has left it
StoreOps ==
    {"db_service.add_task", "db_service.update_task_by_id", "db_service.delete_task_by_id",
     "db_service.get_task_by_id"}

StoreRaised == resp.op \in StoreOps /\ "raised" \in DOMAIN resp.body

StoreReturned == resp.op \in StoreOps /\ "raised" \notin DOMAIN resp.body

\* the rows of a table whose primary key is not pk, in their order
OtherRows(table, pk) == SelectSeq(table, LAMBDA t : t.id # pk)

\* C25: every Task Store operation is an atomic unit of work: when it completes normally all
\* its changes are committed (the added row is there, the updated row has every field of the
\* update, the deleted row is gone), and when an exception is raised inside it none of its
\* changes are visible afterwards; update of an unknown task_id returns None and delete of an
\* unknown primary key returns False, each leaving the store unchanged; a read changes nothing.
C25_UnitOfWork ==
    /\ StoreRaised => tasks = before
    /\ (StoreReturned /\ resp.op = "db_service.add_task") =>
          /\ Len(tasks) = Len(before) + 1
          /\ SubSeq(tasks, 1, Len(before)) = before
          /\ tasks[Len(tasks)].task_id = resp.req.task_data.task_id
          /\ tasks[Len(tasks)].status = resp.req.task_data.status
          /\ resp.body.taskId = resp.req.task_data.task_id
    /\ (StoreReturned /\ resp.op = "db_service.update_task_by_id") =>
          IF NotInStore(before, resp.req.task_id)
          THEN resp.body = [result |-> None] /\ tasks = before
          ELSE /\ Len(tasks) = Len(before)
               /\ \A i \in 1..Len(before) :
                     IF before[i].task_id = resp.req.task_id
                     THEN \A f \in DOMAIN before[i] :
                             tasks[i][f] = IF f \in DOMAIN resp.req.updates
                                           THEN resp.req.updates[f] ELSE before[i][f]
                     ELSE tasks[i] = before[i]
    /\ (StoreReturned /\ resp.op = "db_service.delete_task_by_id") =>
          /\ resp.body.deleted <=> \E i \in 1..Len(before) : before[i].id = resp.req.task_primary_key
          /\ ~resp.body.deleted => tasks = before
          /\ tasks = OtherRows(before, resp.req.task_primary_key)
    /\ resp.op = "db_service.get_task_by_id" => tasks = before

\* an update that renames a row to the task_id of another row has been refused by the unique
\* index, and the store is as it was
C25_Witness ==
    /\ resp.op = "db_service.update_task_by_id"
    /\ resp.body = [raised |-> "IntegrityError"]
    /\ "task_id" \in DOMAIN resp.req.updates
    /\ Len(before) >= 2
    /\ tasks = before

\* a delete_video request for a task the store holds has been served without a persistence error
DeletedVideo ==
    /\ resp.op = "delete_video"
    /\ resp.code = 200

BuiltConcat == resp.op = "create_shotstack_payload" /\ resp.req.connect_videos

\* where the last clip of the video track ends
EndOfClips(clips) == clips[Len(clips)].start + clips[Len(clips)].length

\* C27: in a concatenation payload the i-th clip shows the i-th URL for the i-th source's
\* duration, the first clip starts at 0 and each later clip starts where the one before it
\* ends, and the overlay text clips run from 0 over the sum of all durations, which is where
\* the last clip ends
C27_ClipsBackToBack ==
    BuiltConcat =>
        LET clips == resp.body.clips
            urls == resp.req.urls
            metadata == resp.req.video_metadata_list
        IN /\ Len(clips) = Len(urls)
           /\ \A i \in 1..Len(clips) :
                 /\ clips[i].src = urls[i]
                 /\ "duration" \in DOMAIN metadata[i] => clips[i].length = metadata[i].duration
                 /\ clips[i].start = IF i = 1 THEN 0 ELSE clips[i - 1].start + clips[i - 1].length
           /\ \A k \in 1..Len(resp.body.texts) :
                 /\ resp.body.texts[k].start = 0
                 /\ resp.body.texts[k].length = EndOfClips(clips)

\* a render payload has been built
BuiltPayload == resp.op = "create_shotstack_payload"

\* landscape, portrait or square, by comparing width and height
Orientation(video_metadata) ==
    IF video_metadata.width > video_metadata.height THEN "landscape"
    ELSE IF video_metadata.height > video_metadata.width THEN "portrait" ELSE "square"

\* C28: the output settings of a render payload come from the first source's width and height:
\* the resolution is 'hd' when the first source reaches 1920 wide or 1080 high and 'sd'
\* otherwise, and the aspect ratio tells landscape, portrait and square sources apart: a first
\* source of another orientation gets another aspect ratio
C28_OutputFromFirstSource ==
    BuiltPayload =>
        LET first == resp.req.video_metadata_list[1]
        IN /\ resp.body.resolution =
                 IF first.width >= 1920 \/ first.height >= 1080 THEN "hd" ELSE "sd"
           /\ \A other \in PayloadMetadata :
                 /\ Orientation(other) = Orientation(first) =>
                       create_shotstack_payload("https://cdn/a.mp4", <<other>>, FALSE).aspectRatio
                           = resp.body.aspectRatio
                 /\ Orientation(other) # Orientation(first) =>
                       create_shotstack_payload("https://cdn/a.mp4", <<other>>, FALSE).aspectRatio
                           # resp.body.aspectRatio

\* check_video_existence has asked the hosting provider and answered
AskedProvider ==
    /\ resp.op = "cloudinary_service.check_video_existence"
    /\ resp.provider # None

\* C29: check_video_existence answers false when the hosting provider reports the resource as
\* not found, and true for every other outcome of the provider call, unexpected provider
\* errors and connection errors included
C29_OnlyNotFoundIsGone ==
    AskedProvider =>
        /\ resp.provider = "NotFound" => ~resp.body.exists
        /\ resp.provider # "NotFound" => resp.body.exists
        /\ tasks = before

\* the call to the hosting provider failed on the connection, and the resource counts as there
C29_Witness ==
    /\ AskedProvider
    /\ resp.provider = "ConnectionError"
    /\ resp.body.exists

PendingStatuses == {"shotstack_pending", "concatenated_pending"}

\* C30: in every reachable state a task whose status is 'shotstack_pending' or
\* 'concatenated_pending' has a non-null shotstackRenderId, and no request resets a non-null
\* shotstackRenderId to null: a task that had one when the request arrived has one afterwards
C30_PendingHasRenderId ==
    /\ \A i \in 1..Len(tasks) :
          tasks[i].status \in PendingStatuses => Truthy(tasks[i].shotstackRenderId)
    /\ \A i \in 1..Len(before) :
          before[i].shotstackRenderId # None =>
              /\ i <= Len(tasks)
              /\ tasks[i].task_id = before[i].task_id
              /\ tasks[i].shotstackRenderId # None

\* an upload has overwritten a task whose render was outstanding: the task has left
\* 'shotstack_pending' and still carries its render id
C30_Witness ==
    /\ resp.op = "upload_video"
    /\ \E i \in 1..Len(before) :
          /\ before[i].status = "shotstack_pending"
          /\ tasks[i].status # "shotstack_pending"
          /\ tasks[i].shotstackRenderId = before[i].shotstackRenderId

\* C31: in every reachable state a non-null shotstackUrl, and a non-null posterUrl, stored on a
\* task is the output of the render job its shotstackRenderId names; a task submitted for
\* rendering again does not keep the previous render's URL while the new job is pending
C31_UrlOfCurrentRender ==
    \A i \in 1..Len(tasks) :
        /\ Truthy(tasks[i].shotstackUrl) =>
              tasks[i].shotstackUrl = render_url(tasks[i].shotstackRenderId)
        /\ Truthy(tasks[i].posterUrl) =>
              tasks[i].posterUrl = poster_url(tasks[i].shotstackRenderId)

\* the rows of the table the request found that a concatenation created and whose render has
\* ended
FinishedConcatenations ==
    {i \in 1..Len(before) :
        /\ CreatedByConcatenation(before[i])
        /\ before[i].status \in {"concatenated_completed", "concatenated_failed"}}

\* the sources of the clips of every payload the request submitted to the render provider
SubmittedSources ==
    UNION {{resp.calls.submit[k].clips[c].src : c \in 1..Len(resp.calls.submit[k].clips)} :
              k \in 1..Len(resp.calls.submit)}

\* the request is a status query or a generate-shotstack-video request for the task
AsksAbout(task_id) ==
    resp.op \in {"task-status", "generate-shotstack-video"} /\ resp.req.task_id = task_id

\* C32: 'concatenated_completed' and 'concatenated_failed' are absorbing: once a concatenation
\* task has one of them, no status query, generate-shotstack-video, process_videos or
\* upload_video request changes any field of the task or submits a render for it
C32_ConcatenationEndsForGood ==
    \A i \in FinishedConcatenations :
        /\ i <= Len(tasks)
        /\ tasks[i] = before[i]
        /\ before[i].cloudinary_url \notin SubmittedSources
        /\ AsksAbout(before[i].task_id) => resp.calls = NoCalls

\* a generate-shotstack-video request for a concatenation task whose render has ended has been
\* refused
C32_Witness ==
    /\ resp.op = "generate-shotstack-video"
    /\ resp.code = 400
    /\ \E i \in FinishedConcatenations : before[i].task_id = resp.req.task_id

\* the task is in the store, waiting for its render
AwaitsRender(task_id) ==
    \E i \in 1..Len(tasks) :
        /\ tasks[i].task_id = task_id
        /\ tasks[i].status \in {"shotstack_pending", "concatenated_pending"}

\* the task is in the store with a terminal status
Ended(task_id) ==
    \E i \in 1..Len(tasks) :
        /\ tasks[i].task_id = task_id
        /\ tasks[i].status \in {"completed", "failed", "concatenated_completed", "concatenated_failed"}

\* a status query for a task that had a terminal status did not call the render provider
EndedIsNotPolled ==
    (resp.op = "task-status" /\ resp.code = 200) =>
        \A i \in 1..Len(before) :
            (before[i].task_id = resp.req.task_id
             /\ before[i].status \in {"completed", "failed", "concatenated_completed",
                                      "concatenated_failed"})
            => resp.calls = NoCalls

\* C33: if the client keeps asking for the status of a task in 'shotstack_pending' or
\* 'concatenated_pending' and the render provider answers with a terminal result ('done' or a
\* failure value), the task eventually reaches a terminal status, and status queries for a
\* task with a terminal status do not call the provider
C33_PollingEnds ==
    /\ \A task_id \in PollTaskIds : AwaitsRender(task_id) ~> Ended(task_id)
    /\ []EndedIsNotPolled

\* C33 (amended): the same, the provider's answer 'done' carrying the URL of the output
C33_PollingWithUrlEnds ==
    /\ \A task_id \in PollTaskIds :
          SF_vars(PollEndedWithUrl(task_id)) => (AwaitsRender(task_id) ~> Ended(task_id))
    /\ []EndedIsNotPolled

\* a status query has found a pending concatenation, the provider has reported it done with
\* its URL, and the task is 'concatenated_completed'
C33_Witness ==
    /\ resp.op = "task-status"
    /\ \E i \in 1..Len(before) :
          /\ before[i].task_id = resp.req.task_id
          /\ before[i].status = "concatenated_pending"
          /\ resp.req.answer.status = "done"
          /\ tasks[i].status = "concatenated_completed"

\* two status queries for the same task have both asked the render provider, received the
\* same answer, and replied
TwoQueriesSameAnswer ==
    /\ \A w \in Workers : gen[w].pc = "st_replied" /\ gen[w].polled
    /\ gen[1].task_id = gen[2].task_id
    /\ gen[1].answer = gen[2].answer

\* the table a single status query leaves when it finds the table `table` and receives the
\* answer
SingleQuery(table, task_id, answer) ==
    LET i == FindTask(table, task_id)
    IN IF "raised" \in DOMAIN answer \/ ~reconcile_commits(answer) THEN table
       ELSE [table EXCEPT ![i] = reconcile(table[i], task_id, answer)]

\* C34: two status queries for the same pending task that run concurrently and receive the
\* same provider answer leave the Task Store as a single such query would: the same status,
\* shotstackUrl, posterUrl and message, and no other task affected
C34_ConcurrentQueriesAsOne ==
    TwoQueriesSameAnswer => tasks = SingleQuery(before, gen[1].task_id, gen[1].answer)

\* both queries read the pending task before either committed, the provider told both that the
\* render is done, and the task is completed
C34_Witness ==
    /\ TwoQueriesSameAnswer
    /\ gen[1].task = gen[2].task
    /\ "status" \in DOMAIN gen[1].answer
    /\ gen[1].answer.status = "done"
    /\ Truthy(gen[1].answer.url)
    /\ \E i \in 1..Len(tasks) :
          /\ tasks[i].task_id = gen[1].task_id
          /\ before[i].status = "shotstack_pending"
          /\ tasks[i].status = "completed"

\* a process_videos request has been answered with the id of a new concatenation task
ConcatenationAccepted ==
    /\ resp.op = "process_videos"
    /\ resp.code = 200
    /\ "concatenated_task_id" \in DOMAIN resp.body

\* C35: a successful concatenation request adds exactly one task to the Task Store and leaves
\* every existing task as it was, the sources' status, shotstackRenderId, URLs and metadata
\* included
C35_ConcatenationAddsOneTask ==
    ConcatenationAccepted =>
        /\ Len(tasks) = Len(before) + 1
        /\ SubSeq(tasks, 1, Len(before)) = before
        /\ tasks[Len(tasks)].task_id = resp.body.concatenated_task_id
        /\ NotInStore(before, resp.body.concatenated_task_id)

\* a concatenation of two completed tasks has been accepted; both sources are still completed
C35_Witness ==
    /\ ConcatenationAccepted
    /\ Len(before) >= 2
    /\ \A k \in 1..Len(resp.req.task_ids) :
          \E i \in 1..Len(before) :
              /\ before[i].task_id = resp.req.task_ids[k]
              /\ tasks[i].status = "completed"
    /\ resp.req.task_ids[1] # resp.req.task_ids[2]

\* the distinct tasks a concatenation task lists as its sources
CombinedFrom(task) ==
    {task.video_metadata.combined_from_tasks[k] :
        k \in 1..Len(task.video_metadata.combined_from_tasks)}

\* C36: the combined_from_tasks list of every concatenation task names at least two distinct
\* source tasks; a process_videos request with connect_videos = true whose task_ids repeat one
\* valid id and hold no other valid id produces no concatenation render
C36_TwoDistinctSources ==
    \A i \in 1..Len(tasks) :
        CreatedByConcatenation(tasks[i]) => Cardinality(CombinedFrom(tasks[i])) >= 2

\* a process_videos request that found a valid source has been served
Processed == resp.op = "process_videos" /\ resp.code \in {200, 500}

\* the hosting URLs of the valid sources among the ids of the request
ValidSourceUrls ==
    {before[FindTask(before, id)].cloudinary_url :
        id \in {ValidSources(before, resp.req.task_ids)[k] :
                   k \in 1..Len(ValidSources(before, resp.req.task_ids))}}

\* the request went the individual way
FannedOut == Processed /\ "initiated_tasks" \in DOMAIN resp.body

\* the submissions of the request that show the video at the URL
SubmissionsOf(url) ==
    {k \in 1..Len(resp.calls.submit) : resp.calls.submit[k].clips[1].src = url}

\* the result entries of the request that report a render accepted for the task
AcceptedFor(task_id) ==
    {k \in 1..Len(resp.body.initiated_tasks) :
        /\ resp.body.initiated_tasks[k].taskId = task_id
        /\ "shotstackRenderId" \in DOMAIN resp.body.initiated_tasks[k]
        /\ resp.body.initiated_tasks[k].message = MsgQueued}

\* every submitted clip shows a valid source of the request, and the ids that are not valid
\* sources have no result entry and raise no error
OnlyValidSubmitted ==
    /\ Processed => SubmittedSources \subseteq ValidSourceUrls
    /\ (resp.op = "process_videos" /\ ValidSourceUrls # {}) => resp.code # 404
    /\ FannedOut =>
          /\ resp.code = 200
          /\ \A k \in 1..Len(resp.body.initiated_tasks) :
                \E j \in 1..Len(ValidSources(before, resp.req.task_ids)) :
                    ValidSources(before, resp.req.task_ids)[j] = resp.body.initiated_tasks[k].taskId

\* C37: process_videos submits a render, individually or as a concatenation source, only for
\* tasks that exist, are 'completed' and have a hosting URL and metadata; the other ids are
\* skipped without error; within one fan-out request a task id that appears more than once in
\* task_ids is submitted at most once
C37_ValidOnlyAndOnce ==
    /\ OnlyValidSubmitted
    /\ FannedOut => \A url \in ValidSourceUrls : Cardinality(SubmissionsOf(url)) <= 1

\* C37 (amended): the same, a repeated task id being accepted for rendering at most once: the
\* repeat is skipped once a submission for the id has succeeded, and is submitted again only
\* after a submission that failed
C37_ValidOnlyAcceptedOnce ==
    /\ OnlyValidSubmitted
    /\ FannedOut =>
          \A i \in 1..Len(before) :
              /\ Cardinality(AcceptedFor(before[i].task_id)) <= 1
              /\ Cardinality(SubmissionsOf(before[i].cloudinary_url))
                    <= 1 + Cardinality({k \in 1..Len(resp.body.initiated_tasks) :
                                           /\ resp.body.initiated_tasks[k].taskId = before[i].task_id
                                           /\ "error" \in DOMAIN resp.body.initiated_tasks[k]})

\* a fan-out request named the same completed task twice: one render was accepted for it and
\* the repeat was skipped
C37_Witness ==
    /\ FannedOut
    /\ Len(resp.req.task_ids) = 2
    /\ resp.req.task_ids[1] = resp.req.task_ids[2]
    /\ Len(resp.body.initiated_tasks) = 1
    /\ Cardinality(AcceptedFor(resp.req.task_ids[1])) = 1
    /\ Len(resp.calls.submit) = 1

\* the row a task becomes when the render the result entry reports is stored on it
MarkedPending(task, entry) ==
    [task EXCEPT !.status = "shotstack_pending",
                 !.shotstackRenderId = entry.shotstackRenderId,
                 !.message = "Shotstack render initiated with ID: " \o entry.shotstackRenderId]

\* C38: in the fan-out path of process_videos a submission that fails for one task leaves that
\* task's status and shotstackRenderId as they were and does not stop the remaining tasks from
\* being submitted: every task whose submission succeeded is committed as 'shotstack_pending'
\* with its own render id, every other task is unchanged, and the request returns HTTP 200
\* with one result entry per submission, every valid source having one
C38_FanOutIsolatesFailures ==
    FannedOut =>
        LET info == resp.body.initiated_tasks
        IN /\ resp.code = 200
           /\ Len(tasks) = Len(before)
           /\ Len(info) = Len(resp.calls.submit)
           /\ \A j \in 1..Len(ValidSources(before, resp.req.task_ids)) :
                 \E k \in 1..Len(info) :
                     info[k].taskId = ValidSources(before, resp.req.task_ids)[j]
           /\ \A i \in 1..Len(before) :
                 IF AcceptedFor(before[i].task_id) = {}
                 THEN tasks[i] = before[i]
                 ELSE \A k \in AcceptedFor(before[i].task_id) :
                         tasks[i] = MarkedPending(before[i], info[k])
           /\ \A k, l \in 1..Len(info) :
                 ("shotstackRenderId" \in DOMAIN info[k] /\ "shotstackRenderId" \in DOMAIN info[l]
                  /\ k # l)
                 => info[k].shotstackRenderId # info[l].shotstackRenderId

\* the submission for the first of two tasks failed and the one for the second succeeded: the
\* first task is as it was, the second is 'shotstack_pending'
C38_Witness ==
    /\ FannedOut
    /\ Len(resp.body.initiated_tasks) = 2
    /\ resp.req.task_ids[1] # resp.req.task_ids[2]
    /\ "error" \in DOMAIN resp.body.initiated_tasks[1]
    /\ AcceptedFor(resp.req.task_ids[2]) = {2}
    /\ \E i \in 1..Len(before) :
          /\ before[i].task_id = resp.req.task_ids[1]
          /\ tasks[i] = before[i]
    /\ \E i \in 1..Len(before) :
          /\ before[i].task_id = resp.req.task_ids[2]
          /\ tasks[i].status = "shotstack_pending"

\* the statuses of tasks that are not for display
HiddenStatuses ==
    {"failed", "concatenated_failed", "cloudinary_metadata_incomplete", "cloudinary_upload_failed"}

\* a /user-videos request with at least one identifier has been answered
ListedVideos == resp.op = "user-videos" /\ resp.code = 200

\* the row carries every identifier the request supplied
CarriesIdentifiers(task) ==
    /\ Truthy(resp.req.instagram_username) => task.instagram_username = resp.req.instagram_username
    /\ Truthy(resp.req.email) => task.email = resp.req.email
    /\ Truthy(resp.req.linkedin_profile) => task.linkedin_profile = resp.req.linkedin_profile

\* C39: the /user-videos endpoint never returns a task whose status is failed,
\* concatenated_failed, cloudinary_metadata_incomplete or cloudinary_upload_failed, it never
\* modifies or removes a task, and a query that matches nothing returns HTTP 200 with an
\* empty list
C39_ListHidesFailures ==
    /\ resp.op = "user-videos" => tasks = before /\ resp.calls = NoCalls
    /\ ListedVideos =>
          /\ \A k \in 1..Len(resp.body) : resp.body[k].status \notin HiddenStatuses
          /\ (\A i \in 1..Len(before) : ~CarriesIdentifiers(before[i])) => resp.body = <<>>
    /\ (resp.op = "user-videos"
        /\ (Truthy(resp.req.instagram_username) \/ Truthy(resp.req.email)
            \/ Truthy(resp.req.linkedin_profile)))
       => resp.code = 200

\* the owner's upload has failed its render and is not listed, while the owner's pending
\* concatenation is
C39_Witness ==
    /\ ListedVideos
    /\ Len(resp.body) >= 1
    /\ \E i \in 1..Len(before) :
          /\ CarriesIdentifiers(before[i])
          /\ before[i].status \in HiddenStatuses
====
